---------------------------- MODULE Spec2Model ----------------------------
(***************************************************************************)
(* A model of the vnmark-view scene reconciler: the View (View.ts), its    *)
(* Elements (Element.ts), the Layout (Layout.ts), the Transition tween,    *)
(* the frame-stepped Clock and the part of the Engine that drives the      *)
(* View (Engine.ts, Command.ts).                                           *)
(*                                                                         *)
(* JavaScript is single threaded.  One action of this model is one task    *)
(* of the event loop together with every promise continuation (microtask)  *)
(* it makes runnable: the engine runs View.update from its own async loop, *)
(* so between two awaits of update nothing but microtasks can run unless   *)
(* the awaited promise needs a later task (a payload load, a clock frame,  *)
(* a timeout, a user signal).                                              *)
(*                                                                         *)
(* Numbers: opacity-like values are kept in thousandths (Unit = 1), times  *)
(* are milliseconds, lengths are pixels.                                   *)
(***************************************************************************)
EXTENDS Integers, Sequences, FiniteSets, TLC

(***************************************************************************)
(* Bounds of the model.                                                    *)
(***************************************************************************)
MaxFrame == 7
MaxLines == 6
MaxObjects == 4
MaxTransitions == 6
MaxCalls == 5
MaxClockCalls == 4
MaxRules == 2
MaxClusters == 10
ValueSteps == 20

(***************************************************************************)
(* Program constants and the fixed inputs of the model.                    *)
(***************************************************************************)
Unit == 1000
NaN == -1
Unset == -1
Undefined == "undefined"
NoneValue == "none"
LAYOUT_TRANSITION_DURATION == 500
CONTINUE_DURATION == 1500
FrameTime == 250
ScreenWidth == 1200

Min(a, b) == IF a < b THEN a ELSE b
Max(a, b) == IF a < b THEN b ELSE a

\* K of the value v: an intermediate state that is computed once.
With(v, K(_)) == K(v)

Slot(type, index) == [type |-> type, index |-> index]
Slots == {Slot("choice", 1), Slot("choice", 2), Slot("figure", 1), Slot("figure", 2)}
ElementTypes == {"choice", "figure"}
\* The string order of the element types ('choice' < 'figure').
TypeRank(type) == IF type = "choice" THEN 1 ELSE 2

\* The values a script can give a slot.
SlotValues(slot) ==
    IF slot.type = "choice" THEN {"yes"}
    ELSE IF slot.index = 1 THEN {"a.png", "b.png"} ELSE {"a.png"}

ObjIds == 1 .. MaxObjects
TransIds == 1 .. MaxTransitions

(***************************************************************************)
(* The template the Layout is built from: two decorative nodes bound to    *)
(* one layout each, a figure container inside each of them, and a choice   *)
(* container and choice template outside every layout-bound node.          *)
(***************************************************************************)
Nodes == {"panelA", "panelB"}
elementLayouts == [n \in Nodes |-> IF n = "panelA" THEN {"A"} ELSE {"B"}]
layoutNames == {"none"} \cup UNION {elementLayouts[n] : n \in Nodes}
RequestedLayouts == layoutNames \cup {"X"}

\* Layout.getLayoutTypeElements: the container node of a type in a layout.
getContainerElement(layoutName, elementType) ==
    IF layoutName \notin layoutNames THEN Undefined
    ELSE IF elementType = "choice" THEN "choices"
    ELSE IF layoutName = "A" THEN "figuresA"
    ELSE IF layoutName = "B" THEN "figuresB"
    ELSE Undefined

getTemplateElement(layoutName, elementType) ==
    IF layoutName \in layoutNames /\ elementType = "choice" THEN "choiceTemplate" ELSE Undefined

SeqToSet(q) == {q[i] : i \in 1 .. Len(q)}
SeqRemove(q, x) == SelectSeq(q, LAMBDA y : y # x)
Contains(q, x) == \E i \in 1 .. Len(q) : q[i] = x

VARIABLES
    running,           \* the loop of Engine.execute has a next command
    line,              \* Engine.state.nextCommandIndex
    snapshot,          \* Engine.state.elements, in insertion order
    engineLayoutName,  \* Engine.state.layoutName
    keepSkippingWait,  \* Engine.state.keepSkippingWait
    elements,          \* View.elements
    status,            \* View._status
    isSkipping,        \* View.isSkipping
    isContinuing,      \* View.isContinuing
    skippedLastWait,   \* View.skippedLastWait
    viewDestroyed,     \* View.destroy has run
    layoutName,        \* Layout.layoutName
    nodeStyle,         \* style of the layout-bound nodes
    layoutTransitions, \* Layout.transitions
    frame,             \* FrameClock._frame
    frameCallbacks,    \* FrameClock.frameCallbacks
    timeoutCallbacks,  \* FrameClock.timeoutCallbacks
    objects,           \* the Objects that exist
    transitions,       \* the Transitions that exist
    pc,                \* where the pending View.update is suspended
    options,           \* the UpdateViewOptions of the pending update
    gens,              \* the element transition generators of the cycle
    awaited,           \* transitions whose promise the pending wait awaits
    layoutGen,         \* the suspended Layout.transition generator
    clock,             \* a Clock on its own: its class, its pending frame request
    hist               \* observations for the properties

vars == <<running, line, snapshot, engineLayoutName, keepSkippingWait, elements, status,
          isSkipping, isContinuing, skippedLastWait, viewDestroyed, layoutName,
          nodeStyle, layoutTransitions, frame, frameCallbacks, timeoutCallbacks,
          objects, transitions, pc, options, gens, awaited, layoutGen, clock, hist>>

\* The whole state as one record, for the operators that model the code.
State ==
    [running |-> running, line |-> line, snapshot |-> snapshot, engineLayoutName |-> engineLayoutName,
     keepSkippingWait |-> keepSkippingWait, elements |-> elements,
     status |-> status, isSkipping |-> isSkipping, isContinuing |-> isContinuing,
     skippedLastWait |-> skippedLastWait, viewDestroyed |-> viewDestroyed,
     layoutName |-> layoutName, nodeStyle |-> nodeStyle,
     layoutTransitions |-> layoutTransitions, frame |-> frame,
     frameCallbacks |-> frameCallbacks, timeoutCallbacks |-> timeoutCallbacks,
     objects |-> objects, transitions |-> transitions, pc |-> pc,
     options |-> options, gens |-> gens, awaited |-> awaited,
     layoutGen |-> layoutGen, clock |-> clock, hist |-> hist]

SetState(t) ==
    /\ running' = t.running
    /\ line' = t.line
    /\ snapshot' = t.snapshot
    /\ engineLayoutName' = t.engineLayoutName
    /\ keepSkippingWait' = t.keepSkippingWait
    /\ elements' = t.elements
    /\ status' = t.status
    /\ isSkipping' = t.isSkipping
    /\ isContinuing' = t.isContinuing
    /\ skippedLastWait' = t.skippedLastWait
    /\ viewDestroyed' = t.viewDestroyed
    /\ layoutName' = t.layoutName
    /\ nodeStyle' = t.nodeStyle
    /\ layoutTransitions' = t.layoutTransitions
    /\ frame' = t.frame
    /\ frameCallbacks' = t.frameCallbacks
    /\ timeoutCallbacks' = t.timeoutCallbacks
    /\ objects' = t.objects
    /\ transitions' = t.transitions
    /\ pc' = t.pc
    /\ options' = t.options
    /\ gens' = t.gens
    /\ awaited' = t.awaited
    /\ layoutGen' = t.layoutGen
    /\ clock' = t.clock
    /\ hist' = t.hist

NoObject == [state |-> "free"]
NoTransition == [state |-> "free"]
NoElement == [state |-> "absent"]

(***************************************************************************)
(* HTMLElements.getOpacity / setOpacity on the style of a node.            *)
(***************************************************************************)
getOpacity(style) ==
    IF style.hidden THEN 0
    ELSE IF style.opacity = Unset THEN Unit ELSE style.opacity

setOpacity(opacity) ==
    [hidden |-> opacity = 0,
     opacity |-> IF opacity = 0 \/ opacity = Unit THEN Unset ELSE opacity]

(***************************************************************************)
(* FrameClock.                                                             *)
(***************************************************************************)
time(s) == (s.frame * 1000) \div (1000 \div FrameTime)

addFrameCallback(s, id) ==
    IF Contains(s.frameCallbacks, id) THEN s
    ELSE [s EXCEPT !.frameCallbacks = Append(@, id)]

removeFrameCallback(s, id) ==
    [s EXCEPT !.frameCallbacks = SeqRemove(@, id)]

\* A timeout made by the update that is suspended now resolves its race;
\* "current" is cleared when that race has been settled some other way.
addTimeoutCallback(s, delay) ==
    [s EXCEPT !.timeoutCallbacks =
        Append(@, [time |-> time(s) + delay, current |-> TRUE])]

(***************************************************************************)
(* The two Clocks in general: a callback is registered under an id, and    *)
(* the callbacks given here record their calls.  frameCallbacks and        *)
(* timeoutCallbacks are the Maps, in insertion order; "serial" is the      *)
(* place of an entry in that order, "version" tells one registered         *)
(* callback from another.                                                  *)
(***************************************************************************)
\* Map.set: a new key goes to the end, a key of the map keeps its place.
MapSet(q, id, entry) ==
    IF \E i \in 1 .. Len(q) : q[i].id = id
    THEN [i \in 1 .. Len(q) |->
             IF q[i].id = id THEN [entry EXCEPT !.serial = q[i].serial] ELSE q[i]]
    ELSE Append(q, entry)

MapDelete(q, id) == SelectSeq(q, LAMBDA e : e.id # id)

\* The callbacks registered under an id.
Versions(q, id) == {q[i].callback.version : i \in {j \in 1 .. Len(q) : q[j].id = id}}

\* DOMClock.updateFrameRequest (Clock.ts 185-201): a frame is requested
\* exactly while there are frame callbacks.
updateFrameRequest(s) ==
    IF s.clock.kind # "dom" THEN s
    ELSE [s EXCEPT !.clock.frameRequestId = (Len(s.frameCallbacks) > 0)]

\* addFrameCallback (DOMClock 172-178, FrameClock 267-272).
clockAddFrameCallback(s, id, act, target) ==
    updateFrameRequest(
        [s EXCEPT !.frameCallbacks =
                      MapSet(@, id, [id |-> id, serial |-> s.clock.next,
                                     callback |-> [version |-> s.clock.next,
                                                   act |-> act, target |-> target]]),
                  !.clock.next = @ + 1,
                  !.hist.ticks.dead = @ \cup Versions(s.frameCallbacks, id)])

\* removeFrameCallback (DOMClock 180-183, FrameClock 274-276).
clockRemoveFrameCallback(s, id) ==
    updateFrameRequest(
        [s EXCEPT !.frameCallbacks = MapDelete(@, id),
                  !.hist.ticks.dead = @ \cup Versions(s.frameCallbacks, id)])

\* removeTimeoutCallback (DOMClock 217-223, FrameClock 287-289); clearTimeout
\* takes the timer of the entry from the timers of the browser.
clockRemoveTimeoutCallback(s, id) ==
    [s EXCEPT !.timeoutCallbacks = MapDelete(@, id),
              !.clock.timers = {timer \in @ : timer.callback.version \notin Versions(s.timeoutCallbacks, id)},
              !.hist.ticks.dead = @ \cup Versions(s.timeoutCallbacks, id)]

\* An addTimeoutCallback that does not remove the registration it replaces.
addTimeoutCallbackOnly(s, delay, id) ==
    LET callback == [version |-> s.clock.next, registered |-> time(s), delay |-> delay]
        entry == [id |-> id, serial |-> s.clock.next, time |-> time(s) + delay,
                  callback |-> callback]
    IN  [s EXCEPT !.timeoutCallbacks = MapSet(@, id, entry),
                  !.clock.timers = IF s.clock.kind = "dom" THEN @ \cup {entry} ELSE @,
                  !.clock.next = @ + 1,
                  !.hist.ticks.dead = @ \cup Versions(s.timeoutCallbacks, id)]

\* addTimeoutCallback (DOMClock 203-215, FrameClock 278-285): the FrameClock
\* keeps the time of the call, the DOMClock the timer of setTimeout.
clockAddTimeoutCallback(s, delay, id) ==
    LET s1 == clockRemoveTimeoutCallback(s, id)
        callback == [version |-> s.clock.next, registered |-> time(s), delay |-> delay]
        entry == [id |-> id, serial |-> s.clock.next, time |-> time(s) + delay,
                  callback |-> callback]
    IN  [s1 EXCEPT !.timeoutCallbacks = MapSet(@, id, entry),
                   !.clock.timers = IF s.clock.kind = "dom" THEN @ \cup {entry} ELSE @,
                   !.clock.next = @ + 1]

\* A frame callback called: it records the call and does what it was
\* registered to do.
callFrameCallback(s, e) ==
    LET s1 == [s EXCEPT !.hist.ticks.tick = Append(@, e.callback.version),
                        !.hist.ticks.stale = @ \/ e.callback.version \in s.hist.ticks.dead]
    IN  CASE e.callback.act = "removeSelf" -> clockRemoveFrameCallback(s1, e.id)
          [] e.callback.act = "remove" -> clockRemoveFrameCallback(s1, e.callback.target)
          [] e.callback.act = "add" ->
                 clockAddFrameCallback(s1, e.callback.target, "none", e.callback.target)
          [] OTHER -> s1

\* A timeout callback called.
callTimeoutCallback(s, e) ==
    [s EXCEPT !.hist.ticks.ran = @ \cup {e.callback.version},
              !.hist.ticks.twice = @ \/ e.callback.version \in s.hist.ticks.ran,
              !.hist.ticks.stale = @ \/ e.callback.version \in s.hist.ticks.dead,
              !.hist.ticks.early = @ \/ time(s) < e.callback.registered + e.callback.delay]

\* A walk over the entries that were in the map as the tick began.
RECURSIVE forEachCopied(_, _)
forEachCopied(s, cursor) ==
    LET rest == SelectSeq(s.hist.ticks.begun, LAMBDA e : e.serial > cursor)
    IN  IF rest = <<>> THEN s
        ELSE forEachCopied(callFrameCallback(s, Head(rest)), Head(rest).serial)

\* Map.forEach: the entries are visited in the order of the map as it is
\* when each turn comes: an entry deleted before its turn is passed over, an
\* entry added during the walk is visited in the same walk.
RECURSIVE forEachFrameCallback(_, _)
forEachFrameCallback(s, cursor) ==
    LET rest == SelectSeq(s.frameCallbacks, LAMBDA e : e.serial > cursor)
    IN  IF rest = <<>> THEN s
        ELSE forEachFrameCallback(callFrameCallback(s, Head(rest)), Head(rest).serial)

RECURSIVE forEachTimeoutCallback(_, _)
forEachTimeoutCallback(s, cursor) ==
    LET rest == SelectSeq(s.timeoutCallbacks, LAMBDA e : e.serial > cursor)
        e == Head(rest)
    IN  IF rest = <<>> THEN s
        ELSE forEachTimeoutCallback(
                 IF e.time <= time(s)
                 THEN callTimeoutCallback(
                          [s EXCEPT !.timeoutCallbacks = MapDelete(@, e.id)], e)
                 ELSE s,
                 e.serial)

\* The frame callbacks registered as a tick begins.
beginTick(s) ==
    [s EXCEPT !.hist.ticks.begun = s.frameCallbacks, !.hist.ticks.tick = <<>>]

\* FrameClock.nextFrame (Clock.ts 255-265).
clockNextFrame(s) ==
    forEachTimeoutCallback(
        forEachFrameCallback(beginTick([s EXCEPT !.frame = @ + 1]), 0), 0)

\* The callback DOMClock gives to requestAnimationFrame (Clock.ts 188-193).
animationFrame(s) ==
    updateFrameRequest(
        forEachFrameCallback(beginTick([s EXCEPT !.clock.frameRequestId = FALSE]), 0))

\* The callback DOMClock gives to setTimeout (Clock.ts 209-213).
timerFired(s, timer) ==
    callTimeoutCallback(
        [s EXCEPT !.clock.timers = @ \ {timer},
                  !.timeoutCallbacks = MapDelete(@, timer.id)], timer)

(***************************************************************************)
(* Easings.  LinearEasing is the identity; CssEasings.Ease is the cubic    *)
(* bezier (0.25, 0.1, 0.25, 1), interpolated between its quarter points.   *)
(***************************************************************************)
LinearEasing(fraction) == fraction

Ease(fraction) ==
    IF fraction <= 250 THEN (fraction * 409) \div 250
    ELSE IF fraction <= 500 THEN 409 + ((fraction - 250) * 393) \div 250
    ELSE IF fraction <= 750 THEN 802 + ((fraction - 500) * 158) \div 250
    ELSE 960 + ((fraction - 750) * 40) \div 250

getElementTransitionEasing(name, fraction) ==
    IF name = "linear" THEN LinearEasing(fraction) ELSE Ease(fraction)


(***************************************************************************)
(* Records of the model.                                                   *)
(***************************************************************************)
NoId == 0
NoSlot == Slot("", 0)
NoOptions == [figureIndex |-> Unset, figureCount |-> Unset]
NoProperties ==
    [type |-> "", index |-> 0, value |-> Undefined,
     transitionDuration |-> Unset, script |-> Undefined]
NoOptionsRequest == [type |-> "none", layoutName |-> "", durationMillis |-> 0, matcher |-> {}]

NameOf(properties) == Slot(properties.type, properties.index)

\* new ImageObject / new ChoiceObject: the fields a fresh Object starts with.
NewObject(slot, content, state) ==
    [state |-> state, slot |-> slot, content |-> content, attached |-> FALSE,
     everAttached |-> FALSE, detachCount |-> 0, destroyCount |-> 0,
     destroyedAt |-> Unset,
     props |-> [value |-> Unit, positionX |-> 0, script |-> ""],
     onSelect |-> "unset", selected |-> FALSE, emptied |-> FALSE]

FreeObjIds(s) == {o \in ObjIds : s.objects[o].state = "free"}
FreeTransIds(s) == {i \in TransIds : s.transitions[i].state = "free"}
MinOf(S) == CHOOSE x \in S : \A y \in S : x <= y

ElementExists(s, slot) == s.elements[slot].state = "present"

(***************************************************************************)
(* Transition (transition/Transition.ts).  The callbacks a Transition is   *)
(* given by BaseElement.transitionPropertyValue and by                     *)
(* Layout.transitionElement are the two cases of owner.kind.               *)
(***************************************************************************)
isRunning(t) == t.isStarted /\ ~t.isPaused /\ ~t.isEnded

\* A fraction getter without the case of no duration.
fractionOfTime(t) ==
    Min(Max(0, ((t.runningTime - t.delay) * Unit) \div Max(t.duration, 1)), Unit)

fraction(t) ==
    IF t.duration = 0 THEN Unit
    ELSE Min(Max(0, ((t.runningTime - t.delay) * Unit) \div t.duration), Unit)

setPropertyValue(s, object, propertyName, propertyValue) ==
    [s EXCEPT !.objects[object].props[propertyName] = propertyValue]

getPropertyValue(s, object, propertyName) == s.objects[object].props[propertyName]

attachObject(s, object) ==
    [s EXCEPT !.objects[object].attached = TRUE,
              !.objects[object].everAttached = TRUE]

detachObject(s, object) ==
    [s EXCEPT !.objects[object].attached = FALSE,
              !.objects[object].detachCount = Min(@ + 1, 2)]

\* destroyObject: releases the payload handle (a no-op for choice objects);
\* the model counts the calls and keeps the value the object had at the first.
destroyObject(s, object) ==
    [s EXCEPT !.objects[object].destroyCount = Min(@ + 1, 2),
              !.objects[object].destroyedAt =
                  IF @ = Unset THEN s.objects[object].props.value ELSE @]

\* objectTransitions.get(object) and propertyTransitions.get(propertyName):
\* both multimaps are filled and emptied together, as the sequence "tracked".
objectTransitions(s, slot, object) ==
    IF ~ElementExists(s, slot) THEN <<>>
    ELSE SelectSeq(s.elements[slot].tracked,
                   LAMBDA i : s.transitions[i].owner.object = object)

\* A propertyTransitions multimap that is never filled.
noPropertyTransitions(s, slot, propertyName) == <<>>

propertyTransitions(s, slot, propertyName) ==
    IF ~ElementExists(s, slot) THEN <<>>
    ELSE SelectSeq(s.elements[slot].tracked,
                   LAMBDA i : s.transitions[i].owner.propertyName = propertyName)

untrack(s, slot, id) ==
    IF ~ElementExists(s, slot) THEN s
    ELSE [s EXCEPT !.elements[slot].tracked = SeqRemove(@, id)]

\* A callback given to a Transition on its own (owner.kind "probe") records
\* its call in hist.probe.
record(s, name) ==
    [s EXCEPT !.hist.probe.log = Append(@, name),
              !.hist.probe.fired[name] = @ + 1]

\* resolvePromise?.() (Transition.ts 98-100, 110).
resolvePromise(s, id) ==
    IF s.hist.probe.promise = "pending"
    THEN [s EXCEPT !.hist.probe.promise = "resolved", !.hist.probe.resolved = @ + 1]
    ELSE s

onUpdateCallback(s, id) ==
    LET t == s.transitions[id] IN
    IF t.owner.kind = "probe" THEN record(s, "update")
    ELSE IF t.owner.kind = "element"
    THEN setPropertyValue(s, t.owner.object, t.owner.propertyName, t.currentValue)
    ELSE [s EXCEPT !.nodeStyle[t.owner.node] = setOpacity(t.currentValue)]

RECURSIVE cancel(_, _)
RECURSIVE cancelAll(_, _)

\* An end callback that leaves the other Transitions of the Object alone.
onEndKeepingOthers(s, id) ==
    LET t == s.transitions[id]
        s1 == removeFrameCallback(untrack(s, t.owner.slot, id), id)
    IN  IF t.owner.propertyName = "value" /\ t.owner.propertyValue = 0
        THEN destroyObject(detachObject(s1, t.owner.object), t.owner.object)
        ELSE s1

\* The end callback of transitionPropertyValue (Element.ts 289-302).
elementOnEnd(s, id) ==
    LET t == s.transitions[id]
        s1 == removeFrameCallback(untrack(s, t.owner.slot, id), id)
    IN  IF t.owner.propertyName = "value" /\ t.owner.propertyValue = 0
        THEN LET s2 == cancelAll(s1, objectTransitions(s1, t.owner.slot, t.owner.object))
             IN  destroyObject(detachObject(s2, t.owner.object), t.owner.object)
        ELSE s1

\* The end callback of Layout.transitionElement (Layout.ts 210-213).
layoutOnEnd(s, id) ==
    removeFrameCallback([s EXCEPT !.layoutTransitions = SeqRemove(@, id)], id)

\* notifyCallbacks(onEndCallbacks), which also resolves the promise.
notifyEnd(s, id) ==
    LET s1 == IF s.transitions[id].owner.kind = "element"
              THEN elementOnEnd(s, id) ELSE layoutOnEnd(s, id)
    IN  IF s.transitions[id].owner.kind = "probe" THEN resolvePromise(record(s, "end"), id)
        ELSE [s1 EXCEPT !.awaited = @ \ {id}]

\* A cancel that ends the Transition where it is.
cancelInPlace(s, id, snapToEnd) ==
    IF ~isRunning(s.transitions[id]) THEN s
    ELSE notifyEnd([s EXCEPT !.transitions[id].isEnded = TRUE], id)

\* A cancel that looks at isEnded alone.
cancelUnlessEnded(s, id, snapToEnd) ==
    IF s.transitions[id].isEnded THEN s
    ELSE IF snapToEnd
    THEN notifyEnd(onUpdateCallback(
             [s EXCEPT !.transitions[id].isEnded = TRUE,
                       !.transitions[id].currentValue = s.transitions[id].endValue], id), id)
    ELSE notifyEnd([s EXCEPT !.transitions[id].isEnded = TRUE], id)

\* Transition.cancel() (Transition.ts 175-188), snapToEnd being true.
cancel(s, id) ==
    IF ~isRunning(s.transitions[id]) THEN s
    ELSE LET s1 == [s EXCEPT !.transitions[id].isEnded = TRUE,
                             !.transitions[id].currentValue = s.transitions[id].endValue]
         IN  notifyEnd(onUpdateCallback(s1, id), id)

\* Transition.cancel(snapToEnd) (Transition.ts 175-188).
cancelSnap(s, id, snapToEnd) ==
    IF snapToEnd THEN cancel(s, id)
    ELSE IF ~isRunning(s.transitions[id]) THEN s
    ELSE notifyEnd([s EXCEPT !.transitions[id].isEnded = TRUE], id)

cancelAll(s, ids) ==
    IF ids = <<>> THEN s ELSE cancelAll(cancel(s, Head(ids)), Tail(ids))

updateCurrentValue(s, id) ==
    LET t == s.transitions[id]
        f == fraction(t)
        numberFraction == getElementTransitionEasing(t.easing, f)
        currentNumber == t.startValue + (numberFraction * (t.endValue - t.startValue)) \div Unit
        isEnding == f = Unit
        s1 == [s EXCEPT !.transitions[id].currentValue = currentNumber,
                        !.transitions[id].isEnded = IF isEnding THEN TRUE ELSE @]
        s2 == onUpdateCallback(s1, id)
    IN  IF isEnding THEN notifyEnd(s2, id) ELSE s2

\* throw new Error(...): the call ends there.
throwError(s) == [s EXCEPT !.hist.threw = TRUE]

\* notifyCallbacks of the start, pause and resume callbacks.  The Elements
\* and the Layout register none; a start callback of a Transition on its own
\* may cancel the Transition it is called with.
notifyCallbacks(s, id, name) ==
    IF s.transitions[id].owner.kind # "probe" THEN s
    ELSE IF name = "start" /\ s.hist.probe.onStart = "cancel"
    THEN cancel(record(s, name), id)
    ELSE record(s, name)

start(s, id) ==
    IF s.transitions[id].isEnded THEN throwError(s)
    ELSE IF s.transitions[id].isStarted THEN s
    ELSE updateCurrentValue(
             notifyCallbacks([s EXCEPT !.transitions[id].isStarted = TRUE], id, "start"), id)

\* A pause that does not look at isEnded.
pauseUnchecked(s, id) ==
    IF s.transitions[id].isPaused THEN s
    ELSE notifyCallbacks([s EXCEPT !.transitions[id].isPaused = TRUE], id, "pause")

\* Transition.pause (Transition.ts 147-159).
pause(s, id) ==
    IF s.transitions[id].isEnded THEN throwError(s)
    ELSE IF s.transitions[id].isPaused THEN s
    ELSE notifyCallbacks([s EXCEPT !.transitions[id].isPaused = TRUE], id, "pause")

\* Transition.resume (Transition.ts 161-173).
resume(s, id) ==
    IF s.transitions[id].isEnded THEN throwError(s)
    ELSE IF ~s.transitions[id].isPaused THEN s
    ELSE notifyCallbacks([s EXCEPT !.transitions[id].isPaused = FALSE], id, "resume")

\* set fraction (Transition.ts 200-209).
setFraction(s, id, f) ==
    IF s.transitions[id].isEnded THEN throwError(s)
    ELSE updateCurrentValue(
             [s EXCEPT !.transitions[id].runningTime =
                 s.transitions[id].delay
                     + (Min(Max(0, f), Unit) * s.transitions[id].duration) \div Unit], id)

\* An asPromise that does not keep the promise it has made.
asPromiseFresh(s, id) ==
    IF s.transitions[id].isEnded
    THEN [s EXCEPT !.hist.probe.promise = "resolved", !.hist.probe.made = @ + 1,
                   !.hist.probe.resolved = @ + 1]
    ELSE [s EXCEPT !.hist.probe.promise = "pending", !.hist.probe.made = @ + 1]

\* Transition.asPromise (Transition.ts 92-105): hist.probe.made counts the
\* promises created.
asPromise(s, id) ==
    IF s.hist.probe.promise # "none" THEN s
    ELSE IF s.transitions[id].isEnded
    THEN [s EXCEPT !.hist.probe.promise = "resolved", !.hist.probe.made = @ + 1,
                   !.hist.probe.resolved = @ + 1]
    ELSE [s EXCEPT !.hist.probe.promise = "pending", !.hist.probe.made = @ + 1]

\* An update that adds the time since the last update also while the
\* Transition is not running.
updateCounting(s, id, now) ==
    LET t == s.transitions[id] IN
    IF ~isRunning(t)
    THEN [s EXCEPT !.transitions[id].lastUpdateTime = now,
                   !.transitions[id].runningTime =
                       IF t.lastUpdateTime = NaN THEN @ ELSE @ + (now - t.lastUpdateTime)]
    ELSE [s EXCEPT !.transitions[id].lastUpdateTime = now,
                   !.transitions[id].runningTime =
                       IF t.lastUpdateTime = NaN THEN @ ELSE @ + (now - t.lastUpdateTime)]

\* An update that takes the time since the last update for the running time.
updateAssigning(s, id, now) ==
    LET t == s.transitions[id] IN
    IF ~isRunning(t) THEN [s EXCEPT !.transitions[id].lastUpdateTime = now]
    ELSE updateCurrentValue(
            [s EXCEPT !.transitions[id].runningTime =
                          IF t.lastUpdateTime # NaN THEN now - t.lastUpdateTime ELSE @,
                      !.transitions[id].lastUpdateTime = now], id)

update(s, id, now) ==
    LET t == s.transitions[id] IN
    IF ~isRunning(t) THEN [s EXCEPT !.transitions[id].lastUpdateTime = now]
    ELSE updateCurrentValue(
            [s EXCEPT !.transitions[id].runningTime =
                          IF t.lastUpdateTime # NaN THEN @ + (now - t.lastUpdateTime) ELSE @,
                      !.transitions[id].lastUpdateTime = now], id)

\* new Transition(startValue, endValue, duration).setDelay().setEasing()
NewTransition(startValue, endValue, duration, delay, easing, owner) ==
    [state |-> "live", startValue |-> startValue, endValue |-> endValue,
     duration |-> duration, delay |-> delay, easing |-> easing,
     currentValue |-> startValue, isStarted |-> FALSE, isPaused |-> FALSE,
     isEnded |-> FALSE, lastUpdateTime |-> NaN, runningTime |-> 0, owner |-> owner]

Owner(kind, slot, object, propertyName, propertyValue, node) ==
    [kind |-> kind, slot |-> slot, object |-> object, propertyName |-> propertyName,
     propertyValue |-> propertyValue, node |-> node]

\* BaseElement.transitionPropertyValue (Element.ts 265-307); a value that
\* is not a number (the script of a choice) is set at once.
transitionPropertyValue(s, slot, object, propertyName, propertyValue, transitionDelay, transitionDuration, transitionEasing) ==
    IF propertyName = "script"
    THEN setPropertyValue(s, object, propertyName, propertyValue)
    ELSE IF FreeTransIds(s) = {} THEN [s EXCEPT !.hist.overflow = TRUE]
    ELSE
    LET id == MinOf(FreeTransIds(s))
        t == NewTransition(getPropertyValue(s, object, propertyName), propertyValue,
                           transitionDuration, transitionDelay, transitionEasing,
                           Owner("element", slot, object, propertyName, propertyValue, ""))
        s1 == [s EXCEPT !.transitions[id] = t,
                        !.elements[slot].tracked = Append(@, id)]
    IN  start(addFrameCallback(s1, id), id)

\* Layout.transitionElement (Layout.ts 199-217).
transitionElement(s, node, opacity, transitionDuration) ==
    IF FreeTransIds(s) = {} THEN [s EXCEPT !.hist.overflow = TRUE] ELSE
    LET id == MinOf(FreeTransIds(s))
        t == NewTransition(getOpacity(s.nodeStyle[node]), opacity, transitionDuration,
                           0, "linear", Owner("layout", NoSlot, NoId, "", 0, node))
        s1 == [s EXCEPT !.transitions[id] = t,
                        !.layoutTransitions = Append(@, id)]
    IN  start(addFrameCallback(s1, id), id)

(***************************************************************************)
(* ElementResolvedProperties.ts.                                           *)
(***************************************************************************)
resolveElementValue(properties) ==
    IF properties.value = NoneValue THEN Undefined ELSE properties.value

resolveElementTransitionDuration(properties, elementCount) ==
    IF properties.transitionDuration # Unset THEN properties.transitionDuration
    ELSE 500

resolveElementPropertyTransitionEasing(properties, propertyName) ==
    IF propertyName = "value" THEN "linear" ELSE "ease"

\* ImageElementResolvedProperties.resolve and
\* ChoiceElementResolvedProperties.resolve, on the properties of the model.
resolveProperties(properties, valueChanged, opts) ==
    [value |-> IF valueChanged THEN 0 ELSE Unit,
     positionX |-> IF properties.type # "figure" THEN 0
                   ELSE IF opts.figureIndex = Unset \/ opts.figureCount = Unset THEN NaN
                   ELSE (opts.figureIndex * ScreenWidth) \div (opts.figureCount + 1),
     script |-> IF properties.type = "choice" /\ properties.script # Undefined
                THEN properties.script ELSE ""]

\* Object.keys of the resolved properties of a kind.
PropertyNames(type) ==
    IF type = "figure" THEN <<"value", "positionX">> ELSE <<"value", "script">>

\* Every Element constructed with crossFade = true.
crossFadeAlways(type) == TRUE

\* ImageElement is constructed with crossFade = true, ChoiceElement false.
crossFade(type) == type = "figure"

getTransitionElementCount(type, isEnter) == 1

(***************************************************************************)
(* BaseElement.transition, first half: from the call of next() to the      *)
(* first yield (Element.ts 82-104).                                        *)
(***************************************************************************)
NoGen ==
    [slot |-> NoSlot, oldObject |-> NoId, oldProperties |-> NoProperties,
     oldOptions |-> NoOptions, newProperties |-> NoProperties,
     newOptions |-> NoOptions, newObject |-> NoId, load |-> "none",
     noop |-> TRUE, done |-> FALSE]

\* A first half that constructs an Object for every value that is present.
constructAlways(s, slot, properties, opts) ==
    LET e == s.elements[slot]
        oldValue == resolveElementValue(e.properties)
        newValue == resolveElementValue(properties)
        g0 == [NoGen EXCEPT !.slot = slot, !.oldObject = e.object,
                            !.oldProperties = e.properties, !.oldOptions = e.options,
                            !.newProperties = properties, !.newOptions = opts]
    IN  IF oldValue = Undefined /\ newValue = Undefined
        THEN [s EXCEPT !.gens = Append(@, [g0 EXCEPT !.load = "resolved"])]
        ELSE IF newValue # Undefined
        THEN IF FreeObjIds(s) = {} THEN [s EXCEPT !.hist.overflow = TRUE]
             ELSE LET o == MinOf(FreeObjIds(s))
                      immediate == properties.type = "choice"
                  IN  [s EXCEPT
                         !.objects[o] = NewObject(slot, newValue,
                                            IF immediate THEN "created" ELSE "loading"),
                         !.gens = Append(@, [g0 EXCEPT !.noop = FALSE, !.newObject = o,
                                     !.load = IF immediate THEN "resolved" ELSE "pending"])]
        ELSE [s EXCEPT !.gens = Append(@, [g0 EXCEPT !.noop = FALSE, !.load = "resolved"])]

transitionPhase1(s, slot, properties, opts) ==
    LET e == s.elements[slot]
        oldValue == resolveElementValue(e.properties)
        newValue == resolveElementValue(properties)
        g0 == [NoGen EXCEPT !.slot = slot, !.oldObject = e.object,
                            !.oldProperties = e.properties, !.oldOptions = e.options,
                            !.newProperties = properties, !.newOptions = opts]
    IN  IF oldValue = Undefined /\ newValue = Undefined
        THEN [s EXCEPT !.gens = Append(@, [g0 EXCEPT !.load = "resolved"])]
        ELSE IF newValue # Undefined /\ newValue # oldValue
        THEN IF FreeObjIds(s) = {} THEN [s EXCEPT !.hist.overflow = TRUE]
             ELSE LET o == MinOf(FreeObjIds(s))
                      immediate == properties.type = "choice"
                  IN  [s EXCEPT
                         !.objects[o] = NewObject(slot, newValue,
                                            IF immediate THEN "created" ELSE "loading"),
                         !.gens = Append(@, [g0 EXCEPT !.noop = FALSE, !.newObject = o,
                                     !.load = IF immediate THEN "resolved" ELSE "pending"])]
        ELSE [s EXCEPT !.gens = Append(@, [g0 EXCEPT !.noop = FALSE, !.load = "resolved"])]

(***************************************************************************)
(* BaseElement.transition, second half: from the first yield to the end    *)
(* (Element.ts 106-218).                                                   *)
(***************************************************************************)
RECURSIVE setProperties(_, _, _, _)
setProperties(s, object, names, values) ==
    IF names = <<>> THEN s
    ELSE setProperties(setPropertyValue(s, object, Head(names), values[Head(names)]),
                       object, Tail(names), values)

RECURSIVE transitionProperties(_, _, _)
transitionProperties(s, c, names) ==
    IF names = <<>> THEN s
    ELSE
    LET propertyName == Head(names)
        oldObjectChanged == c.hasOld /\ c.oldOld[propertyName] # c.oldNew[propertyName]
        newObjectChanged == c.hasNew /\ c.newOld[propertyName] # c.newNew[propertyName]
        previous == propertyTransitions(s, c.slot, propertyName)
        \* observation: a pair that gets a Transition below had one already
        replaces ==
            \E i \in SeqToSet(previous) :
                \/ oldObjectChanged /\ s.transitions[i].owner.object = c.oldObject
                \/ newObjectChanged /\ s.transitions[i].owner.object = c.newObject
        s1 == IF oldObjectChanged \/ newObjectChanged
              THEN [cancelAll(s, previous) EXCEPT !.hist.replaced = @ \/ replaces]
              ELSE s
        transitionEasing == resolveElementPropertyTransitionEasing(c.newProperties, propertyName)
        s2 == IF oldObjectChanged
              THEN transitionPropertyValue(s1, c.slot, c.oldObject, propertyName,
                       c.oldNew[propertyName], 0, c.oldDuration, transitionEasing)
              ELSE s1
        s3 == IF newObjectChanged
              THEN transitionPropertyValue(s2, c.slot, c.newObject, propertyName,
                       c.newNew[propertyName], c.newDelay, c.newDuration, transitionEasing)
              ELSE s2
    IN  transitionProperties(s3, c, Tail(names))

transitionPhase2(s, k) ==
    LET g == s.gens[k]
        slot == g.slot
        type == g.newProperties.type
        oldValue == resolveElementValue(g.oldProperties)
        newValue == resolveElementValue(g.newProperties)
        \* newObject is assigned by the continuation of createObject
        newObject == IF g.load = "resolved" THEN g.newObject ELSE NoId
        hasOld == g.oldObject # NoId
        hasNew == newObject # NoId
        cross == crossFade(type)
        oldObjectTransitionDuration ==
            IF hasOld THEN resolveElementTransitionDuration(g.newProperties,
                               getTransitionElementCount(type, FALSE))
            ELSE 0
        c == [slot |-> slot, hasOld |-> hasOld, hasNew |-> hasNew,
              oldObject |-> g.oldObject, newObject |-> newObject,
              newProperties |-> g.newProperties,
              oldOld |-> resolveProperties(g.oldProperties, FALSE, g.oldOptions),
              oldNew |-> IF cross /\ newValue # Undefined
                         THEN resolveProperties(g.newProperties, oldValue # newValue, g.newOptions)
                         ELSE resolveProperties(g.oldProperties, oldValue # newValue, g.oldOptions),
              newOld |-> IF cross /\ oldValue # Undefined
                         THEN resolveProperties(g.oldProperties, oldValue # newValue, g.oldOptions)
                         ELSE resolveProperties(g.newProperties, oldValue # newValue, g.newOptions),
              newNew |-> resolveProperties(g.newProperties, FALSE, g.newOptions),
              oldDuration |-> oldObjectTransitionDuration,
              newDelay |-> IF cross THEN 0 ELSE oldObjectTransitionDuration,
              newDuration |-> IF hasNew
                              THEN resolveElementTransitionDuration(g.newProperties,
                                       getTransitionElementCount(type, TRUE))
                              ELSE 0]
        s1 == IF hasNew
              THEN attachObject(setProperties(s, newObject, PropertyNames(type), c.newOld),
                                newObject)
              ELSE s
        s2 == IF hasOld \/ hasNew
              THEN transitionProperties(s1, c, PropertyNames(type))
              ELSE s1
    IN  IF g.noop THEN [s EXCEPT !.gens[k].done = TRUE]
        ELSE With(s2, LAMBDA s3 :
                 IF newValue # Undefined
                 THEN [s3 EXCEPT !.elements[slot].object = IF hasNew THEN newObject ELSE g.oldObject,
                                 !.elements[slot].properties = g.newProperties,
                                 !.elements[slot].options = g.newOptions,
                                 !.gens[k].done = TRUE]
                 ELSE [s3 EXCEPT !.elements[slot].object = NoId,
                                 !.elements[slot].properties = NoProperties,
                                 !.elements[slot].options = NoOptions,
                                 \* observation: this Object's slot became empty
                                 !.objects = IF hasOld
                                             THEN [@ EXCEPT ![g.oldObject].emptied = TRUE]
                                             ELSE @,
                                 !.gens[k].done = TRUE])

(***************************************************************************)
(* ElementPropertyMatcher (engine/ElementPropertyMatcher.ts).  A glob is   *)
(* "*", a bare type ("figure"), a type with "*" ("figure*") or a full      *)
(* name ("figure1"); a bare name has index 0.                              *)
(***************************************************************************)
AnyIndex == -1
Glob(type, index) == [type |-> type, index |-> index]

globMatch(glob, name) ==
    \/ glob.type = "*"
    \/ glob.type = name.type /\ (glob.index = AnyIndex \/ glob.index = name.index)

\* elementName.replace(/(?<![0-9])1$/, ''): the name is the type followed by
\* the decimal index, so the final 1 is not preceded by a digit iff index = 1.
stripTrailingOne(name) == IF name.index = 1 THEN Slot(name.type, 0) ELSE name

getPropertyMatcher(matchers, elementName) ==
    {m[2] : m \in {n \in matchers : \/ globMatch(n[1], elementName)
                                    \/ globMatch(n[1], stripTrailingOne(elementName))}}

propertyMatch(propertyMatchers, propertyName) ==
    \E g \in propertyMatchers : g = "*" \/ g = propertyName

(***************************************************************************)
(* The same on strings.  A string is the sequence of its characters; a     *)
(* pattern is made of literal characters, "?" and "*".                     *)
(***************************************************************************)
DigitChars == <<"0", "1", "2", "3", "4", "5", "6", "7", "8", "9">>
IsDigit(c) == \E d \in 1 .. Len(DigitChars) : DigitChars[d] = c

\* String(index): the decimal digits of a positive number.
RECURSIVE Decimal(_)
Decimal(n) ==
    IF n < Len(DigitChars) THEN <<DigitChars[n + 1]>>
    ELSE Decimal(n \div Len(DigitChars)) \o <<DigitChars[(n % Len(DigitChars)) + 1]>>

\* A replace that takes a final 1 away whatever stands before it.
replaceFinalOne(elementName) ==
    IF Len(elementName) >= 1 /\ elementName[Len(elementName)] = "1"
    THEN SubSeq(elementName, 1, Len(elementName) - 1)
    ELSE elementName

\* elementName.replace(/(?<![0-9])1$/, '') (ElementPropertyMatcher.ts 45).
replaceTrailingOne(elementName) ==
    IF /\ Len(elementName) >= 1
       /\ elementName[Len(elementName)] = "1"
       /\ Len(elementName) = 1 \/ ~IsDigit(elementName[Len(elementName) - 1])
    THEN SubSeq(elementName, 1, Len(elementName) - 1)
    ELSE elementName

\* Minimatch.match of a pattern without braces, classes or slashes.
RECURSIVE minimatch(_, _)
minimatch(pattern, input) ==
    IF pattern = <<>> THEN input = <<>>
    ELSE IF Head(pattern) = "*"
    THEN \/ minimatch(Tail(pattern), input)
         \/ input # <<>> /\ minimatch(pattern, Tail(input))
    ELSE /\ input # <<>>
         /\ Head(pattern) = "?" \/ Head(pattern) = Head(input)
         /\ minimatch(Tail(pattern), Tail(input))

\* ElementPropertyMatcher.getPropertyMatcher (ElementPropertyMatcher.ts
\* 40-52): the property matchers the returned Matcher is closed over.
filterMatchers(matchers, elementName) ==
    LET kept == SelectSeq(matchers, LAMBDA it :
                    \/ minimatch(it[1], elementName)
                    \/ minimatch(it[1], replaceTrailingOne(elementName)))
    IN  [i \in 1 .. Len(kept) |-> kept[i][2]]

\* match of the Matcher that getPropertyMatcher returns.
someMatch(propertyMatchers, propertyName) ==
    \E i \in 1 .. Len(propertyMatchers) : minimatch(propertyMatchers[i], propertyName)

(***************************************************************************)
(* View.update (View.ts 143-458) and what follows it in                    *)
(* Engine.updateView (Engine.ts 372-387).                                  *)
(***************************************************************************)
Ready == [type |-> "ready", current |-> FALSE]

Before(a, b) ==
    \/ TypeRank(a.type) < TypeRank(b.type)
    \/ a.type = b.type /\ a.index < b.index

RECURSIVE insertSorted(_, _)
insertSorted(q, x) ==
    IF q = <<>> THEN <<x>>
    ELSE IF Before(x, Head(q)) THEN <<x>> \o q
    ELSE <<Head(q)>> \o insertSorted(Tail(q), x)

RECURSIVE sortElements(_)
sortElements(q) ==
    IF q = <<>> THEN <<>> ELSE insertSorted(sortElements(Tail(q)), Head(q))

SlotSeq == sortElements(
    LET RECURSIVE toSeq(_)
        toSeq(S) == IF S = {} THEN <<>>
                    ELSE LET x == CHOOSE y \in S : TRUE IN <<x>> \o toSeq(S \ {x})
    IN toSeq(Slots))

\* elementIndices and elementTypeCounts (View.ts 160-172).
elementIndex(sorted, i) ==
    IF resolveElementValue(sorted[i]) = Undefined THEN Unset
    ELSE Cardinality({j \in 1 .. (i - 1) :
            sorted[j].type = sorted[i].type /\ resolveElementValue(sorted[j]) # Undefined})

elementTypeCount(sorted, type) ==
    LET n == Cardinality({j \in 1 .. Len(sorted) :
                 sorted[j].type = type /\ resolveElementValue(sorted[j]) # Undefined})
    IN  IF n = 0 THEN Unset ELSE n

transitionOptions(sorted, i) ==
    IF sorted[i].type = "figure"
    THEN [figureIndex |-> elementIndex(sorted, i),
          figureCount |-> elementTypeCount(sorted, "figure")]
    ELSE NoOptions

NewElement(type) ==
    [state |-> "present", type |-> type, object |-> NoId, properties |-> NoProperties,
     options |-> NoOptions, tracked |-> <<>>, destroyed |-> FALSE]

\* The loop of View.ts 175-295: create the missing Elements.
RECURSIVE createElements(_, _, _)
createElements(s, sorted, i) ==
    IF i > Len(sorted) THEN s
    ELSE LET p == sorted[i]
             slot == NameOf(p)
             create == /\ ~ElementExists(s, slot)
                       /\ resolveElementValue(p) # Undefined
                       /\ getContainerElement(s.engineLayoutName, p.type) # Undefined
         IN  createElements(
                 IF create THEN [s EXCEPT !.elements[slot] = NewElement(p.type)] ELSE s,
                 sorted, i + 1)

\* The first next() of every generator (View.ts 297-299).
RECURSIVE runPhase1(_, _, _)
runPhase1(s, sorted, i) ==
    IF i > Len(sorted) THEN s
    ELSE runPhase1(
             IF ElementExists(s, NameOf(sorted[i]))
             THEN transitionPhase1(s, NameOf(sorted[i]), sorted[i], transitionOptions(sorted, i))
             ELSE s,
             sorted, i + 1)

\* The second next() of every generator (View.ts 308-314).
RECURSIVE runPhase2(_, _)
runPhase2(s, k) ==
    IF k > Len(s.gens) THEN s ELSE runPhase2(transitionPhase2(s, k), k + 1)

\* Promise.race in the place of Promise.all.
AnyLoaded(s) == \E k \in 1 .. Len(s.gens) : s.gens[k].load = "resolved"

AllLoaded(s) == \A k \in 1 .. Len(s.gens) : s.gens[k].load = "resolved"

\* A settled Promise.race: what still completes later has no one to wake.
settle(s) ==
    [s EXCEPT !.awaited = {},
              !.status.current = FALSE,
              !.timeoutCallbacks = [i \in 1 .. Len(@) |-> [@[i] EXCEPT !.current = FALSE]]]

\* update resolves; Engine.updateView removes the slots whose value is none.
resolveUpdate(s) ==
    [settle(s) EXCEPT
        !.pc = "idle",
        !.line = @ + 1,
        !.snapshot = SelectSeq(@, LAMBDA p : p.value # NoneValue /\ p.value # Undefined),
        !.keepSkippingWait = FALSE,
        !.hist.result = "resolved"]

\* A rejection that commits the elements before it rejects.
rejectCommitted(s) ==
    [runPhase2(s, 1) EXCEPT !.pc = "rejected", !.hist.result = "rejected"]

\* The promise of View.update rejects: nothing after the await runs.
rejectUpdate(s) == [s EXCEPT !.pc = "rejected", !.hist.result = "rejected"]

\* View.waitOrSkip (View.ts 467-492): does it return at once?
returnsAtOnce(s, keepSkipping) ==
    \/ s.isSkipping
    \/ s.skippedLastWait /\ (keepSkipping \/ s.keepSkippingWait)

\* An early return that uses the remembered skip up.
returnOnce(s) ==
    [s EXCEPT !.skippedLastWait = FALSE,
              !.hist.carried = IF s.isSkipping THEN @ ELSE @ + 1]

\* The early return of waitOrSkip (View.ts 471-478): nothing is assigned;
\* hist.carried counts the returns owed to the remembered skip.
waitOrSkipReturn(s) ==
    [s EXCEPT !.hist.carried = IF s.isSkipping THEN @ ELSE @ + 1]

\* The rest of waitOrSkip up to the race (View.ts 479-490).
blockWithStatus(s) ==
    [s EXCEPT !.skippedLastWait = FALSE,
              !.status = [type |-> "waiting", current |-> TRUE],
              \* observation: a skip closure has been handed out
              !.hist.handed = @ \cup {"skip"},
              !.hist.carried = 0]

\* BaseElement.destroy (Element.ts 334-345).
elementDestroy(s, slot) ==
    LET s1 == cancelAll(s, s.elements[slot].tracked)
        object == s1.elements[slot].object
        s2 == IF object # NoId THEN destroyObject(detachObject(s1, object), object) ELSE s1
    IN  [s2 EXCEPT !.elements[slot].destroyed = TRUE]

\* BaseElement.snap and BaseElement.wait for the matcher of one element.
elementSnap(s, slot, propertyMatchers) ==
    cancelAll(s, SelectSeq(s.elements[slot].tracked,
        LAMBDA i : propertyMatch(propertyMatchers, s.transitions[i].owner.propertyName)))

elementWait(s, slot, propertyMatchers) ==
    {i \in SeqToSet(s.elements[slot].tracked) :
        propertyMatch(propertyMatchers, s.transitions[i].owner.propertyName)}

(***************************************************************************)
(* Layout.transition (Layout.ts 144-197), Layout.wait and Layout.snap.     *)
(***************************************************************************)
NodeSeq == <<"panelA", "panelB">>
TypeSeq == <<"choice", "figure">>
NoLayoutGen == [exitElementTypes |-> <<>>, enterElements |-> <<>>]

RECURSIVE transitionElements(_, _, _)
transitionElements(s, nodes, opacity) ==
    IF nodes = <<>> THEN s
    ELSE transitionElements(
             transitionElement(s, Head(nodes), opacity, LAYOUT_TRANSITION_DURATION),
             Tail(nodes), opacity)

\* A first step in which every kind that has a container exits.
exitEveryKind(s, newLayoutName) ==
    LET oldLayoutName == s.layoutName
        s1 == [s EXCEPT !.layoutName = newLayoutName]
        isIn(n, l) == l \in elementLayouts[n]
        exitElements == SelectSeq(NodeSeq, LAMBDA n :
                            isIn(n, oldLayoutName) /\ ~isIn(n, newLayoutName))
        enterElements == SelectSeq(NodeSeq, LAMBDA n :
                            ~isIn(n, oldLayoutName) /\ isIn(n, newLayoutName))
        exitTypes == SelectSeq(TypeSeq, LAMBDA t :
                        getContainerElement(oldLayoutName, t) # Undefined)
    IN  IF oldLayoutName = newLayoutName
        THEN [s1 EXCEPT !.layoutGen = NoLayoutGen]
        ELSE [transitionElements(s1, exitElements, 0) EXCEPT
                 !.layoutGen = [exitElementTypes |-> exitTypes,
                                enterElements |-> enterElements]]

\* From the first next() to the yield of the exit element types.
layoutTransitionStep1(s, newLayoutName) ==
    LET oldLayoutName == s.layoutName
        s1 == [s EXCEPT !.layoutName = newLayoutName]
        isIn(n, l) == l \in elementLayouts[n]
        exitElements == SelectSeq(NodeSeq, LAMBDA n :
                            isIn(n, oldLayoutName) /\ ~isIn(n, newLayoutName))
        enterElements == SelectSeq(NodeSeq, LAMBDA n :
                            ~isIn(n, oldLayoutName) /\ isIn(n, newLayoutName))
        exitTypes == SelectSeq(TypeSeq, LAMBDA t :
                        /\ getContainerElement(oldLayoutName, t) # Undefined
                        /\ getContainerElement(oldLayoutName, t)
                               # getContainerElement(newLayoutName, t))
    IN  IF oldLayoutName = newLayoutName
        THEN [s1 EXCEPT !.layoutGen = NoLayoutGen]
        ELSE [transitionElements(s1, exitElements, 0) EXCEPT
                 !.layoutGen = [exitElementTypes |-> exitTypes,
                                enterElements |-> enterElements]]

\* A generator that ends without a fade for the entering nodes.
enterNothing(s) == [s EXCEPT !.layoutGen.enterElements = <<>>]

\* From that yield to the end of the generator.
layoutTransitionStep2(s) ==
    [transitionElements(s, s.layoutGen.enterElements, Unit) EXCEPT
        !.layoutGen.enterElements = <<>>]

layoutWait(s) == SeqToSet(s.layoutTransitions)

layoutSnap(s) == cancelAll(s, s.layoutTransitions)

\* View.ts 414-423: destroy and forget the Elements of the exit types.
RECURSIVE destroyExitElements(_, _)
destroyExitElements(s, slots) ==
    IF slots = <<>> THEN s
    ELSE LET slot == Head(slots)
             exits == ElementExists(s, slot) /\ Contains(s.layoutGen.exitElementTypes, slot.type)
             s1 == IF exits
                   THEN [elementDestroy(s, slot) EXCEPT
                            !.snapshot = SelectSeq(@, LAMBDA p : NameOf(p) # slot),
                            !.elements[slot] = NoElement,
                            !.hist.orphaned = @ \cup {slot}]
                   ELSE s
         IN  destroyExitElements(s1, Tail(slots))

\* The last two steps of the set_layout chain (View.ts 427-430).
layoutEnd(s) == resolveUpdate(layoutSnap(s))

\* A second step that starts the enter fades on top of the old layout.
layoutMidEarly(s) ==
    With(layoutTransitionStep2(s), LAMBDA s1 :
        IF returnsAtOnce(s1, TRUE) THEN layoutEnd(waitOrSkipReturn(s1))
        ELSE With(blockWithStatus(s1), LAMBDA s2 :
                 [s2 EXCEPT !.pc = "layoutWait2", !.awaited = layoutWait(s2)]))

\* The steps after the first wait of set_layout (View.ts 412-426).
layoutMid(s) ==
    With(layoutTransitionStep2(destroyExitElements(layoutSnap(s), SlotSeq)), LAMBDA s1 :
        IF returnsAtOnce(s1, TRUE) THEN layoutEnd(waitOrSkipReturn(s1))
        ELSE With(blockWithStatus(s1), LAMBDA s2 :
                 IF layoutWait(s2) = {} THEN layoutEnd(settle(s2))
                 ELSE [s2 EXCEPT !.pc = "layoutWait2", !.awaited = layoutWait(s2)]))

setLayoutBranch(s) ==
    LET s1 == [s EXCEPT !.engineLayoutName = s.options.layoutName]
    IN  IF s.options.layoutName \notin layoutNames THEN rejectUpdate(s1)
        ELSE With(layoutTransitionStep1(s1, s.options.layoutName), LAMBDA s2 :
                 IF returnsAtOnce(s2, FALSE) THEN layoutMid(waitOrSkipReturn(s2))
                 ELSE With(blockWithStatus(s2), LAMBDA s3 :
                          IF layoutWait(s3) = {} THEN layoutMid(settle(s3))
                          ELSE [s3 EXCEPT !.pc = "layoutWait1", !.awaited = layoutWait(s3)]))

(***************************************************************************)
(* The pause request (View.ts 332-404).                                    *)
(***************************************************************************)
\* A pause that forgets to block.
neverPaused(s) == resolveUpdate(s)

\* The second then of the chain (View.ts 389-402).
pauseAfterContinue(s) ==
    IF ~(s.isSkipping \/ s.isContinuing)
    THEN [s EXCEPT !.status = [type |-> "paused", current |-> TRUE], !.pc = "paused",
                   \* observation: a continue closure has been handed out
                   !.hist.handed = @ \cup {"continue"},
                   !.hist.wasPaused = TRUE]
    ELSE resolveUpdate(s)

RECURSIVE setOnSelects(_, _)
setOnSelects(s, slots) ==
    IF slots = <<>> THEN s
    ELSE LET object == s.elements[Head(slots)].object
         IN  setOnSelects(
                 IF object # NoId THEN [s EXCEPT !.objects[object].onSelect = "current"] ELSE s,
                 Tail(slots))

pauseBranch(s) ==
    LET entries == SelectSeq(s.snapshot, LAMBDA p :
                       p.type = "choice" /\ resolveElementValue(p) # Undefined)
        choiceElements == [i \in 1 .. Len(entries) |-> NameOf(entries[i])]
    IN  IF Len(choiceElements) > 0
        THEN IF \E i \in 1 .. Len(choiceElements) : ~ElementExists(s, choiceElements[i])
             THEN rejectUpdate(s)
             ELSE [setOnSelects(s, choiceElements) EXCEPT
                      !.status = [type |-> "choice", current |-> TRUE],
                      !.pc = "choice",
                      !.hist.choiceElements = choiceElements]
        ELSE IF s.isSkipping THEN resolveUpdate(s)
        ELSE IF s.isContinuing
        THEN \* no voice element is modelled: the auto-continue timeout
             LET s1 == addTimeoutCallback(s, CONTINUE_DURATION)
             IN  IF returnsAtOnce(s1, FALSE) THEN pauseAfterContinue(settle(waitOrSkipReturn(s1)))
                 ELSE [blockWithStatus(s1) EXCEPT !.pc = "continueWait"]
        ELSE pauseAfterContinue(s)

(***************************************************************************)
(* The delay, snap and wait requests (View.ts 432-453).                    *)
(***************************************************************************)
delayBranch(s) ==
    LET s1 == addTimeoutCallback(s, s.options.durationMillis)
    IN  IF returnsAtOnce(s1, FALSE) THEN resolveUpdate(waitOrSkipReturn(s1))
        ELSE [blockWithStatus(s1) EXCEPT !.pc = "delayWait"]

RECURSIVE snapElements(_, _)
snapElements(s, slots) ==
    IF slots = <<>> THEN s
    ELSE snapElements(
             IF ElementExists(s, Head(slots))
             THEN elementSnap(s, Head(slots), getPropertyMatcher(s.options.matcher, Head(slots)))
             ELSE s,
             Tail(slots))

snapBranch(s) == resolveUpdate(snapElements(s, SlotSeq))

waitBranch(s) ==
    LET promises == UNION {elementWait(s, slot, getPropertyMatcher(s.options.matcher, slot)) :
                              slot \in {x \in Slots : ElementExists(s, x)}}
    IN  IF returnsAtOnce(s, FALSE) THEN resolveUpdate(waitOrSkipReturn(s))
        ELSE LET s1 == blockWithStatus(s)
             IN  IF promises = {} THEN resolveUpdate(s1)
                 ELSE [s1 EXCEPT !.pc = "waitWait", !.awaited = promises]

\* switch (options.type)
branch(s) ==
    CASE s.options.type = "pause" -> pauseBranch(s)
      [] s.options.type = "set_layout" -> setLayoutBranch(s)
      [] s.options.type = "delay" -> delayBranch(s)
      [] s.options.type = "snap" -> snapBranch(s)
      [] s.options.type = "wait" -> waitBranch(s)

\* After the await of loadWithStatus: status ready, the commit of every
\* element, then the request (View.ts 308-458).
afterLoad(s) == branch(runPhase2([s EXCEPT !.status = Ready], 1))

\* View.update up to the await of loadWithStatus (View.ts 143-307).
startUpdate(s, request) ==
    LET sorted == sortElements(s.snapshot)
        s0 == [s EXCEPT !.options = request, !.gens = <<>>, !.layoutGen = NoLayoutGen,
                        !.hist.evaluated = <<>>, !.hist.choiceElements = <<>>,
                        !.hist.result = "none", !.hist.ignored = FALSE,
                        !.hist.replaced = FALSE,
                        !.hist.cycle = 1 - @, !.hist.chosen = NoId,
                        !.hist.wasPaused = FALSE, !.hist.skipped = FALSE,
                        !.hist.orphaned = {}, !.hist.edited = FALSE,
                        !.hist.torn = FALSE,
                        !.hist.second = /\ request.type = "set_layout"
                                        /\ s.options.type = "set_layout"
                                        /\ s.hist.result = "resolved"
                                        /\ s.options.layoutName = request.layoutName
                                        /\ s.layoutName = request.layoutName
                                        /\ ~s.hist.edited]
        s1 == runPhase1(createElements(s0, sorted, 1), sorted, 1)
        s2 == [s1 EXCEPT !.status = [type |-> "loading", current |-> FALSE],
                         !.pc = "loading"]
    IN  IF AllLoaded(s2) THEN afterLoad(s2) ELSE s2

\* The continuation of the suspended update once what it awaits is complete.
continue(s, timeoutFired) ==
    CASE s.pc = "layoutWait1" /\ s.awaited = {} -> layoutMid(settle(s))
      [] s.pc = "layoutWait2" /\ s.awaited = {} -> layoutEnd(settle(s))
      \* observation: the skip closure of this wait is left over ("lapsed")
      [] s.pc = "waitWait" /\ s.awaited = {} ->
            resolveUpdate([s EXCEPT !.hist.handed = @ \cup {"lapsed"}])
      [] s.pc = "delayWait" /\ timeoutFired ->
            resolveUpdate([s EXCEPT !.hist.handed = @ \cup {"lapsed"}])
      [] s.pc = "continueWait" /\ timeoutFired -> pauseAfterContinue(settle(s))
      [] OTHER -> s

(***************************************************************************)
(* The signals of the user and the host.                                   *)
(***************************************************************************)
\* What runs when the race of the suspended wait is won by skip().
afterSkip(s) ==
    CASE s.pc = "layoutWait1" -> layoutMid(settle(s))
      [] s.pc = "layoutWait2" -> layoutEnd(settle(s))
      [] s.pc = "continueWait" -> pauseAfterContinue(settle(s))
      [] OTHER -> resolveUpdate(s)

\* A skip that cancels what the wait was waiting for.
skipCanceling(s) ==
    LET s0 == cancelAll(s, SelectSeq(s.frameCallbacks, LAMBDA i : i \in s.awaited))
        s1 == [s0 EXCEPT !.status = Ready, !.skippedLastWait = TRUE,
                         !.hist.skipped = s.status.current, !.hist.carried = 0]
    IN  IF s.status.current THEN afterSkip(s1) ELSE s1

\* The skip closure of the waiting status (View.ts 484-488).
skip(s) ==
    LET s1 == [s EXCEPT !.status = Ready, !.skippedLastWait = TRUE,
                        !.hist.skipped = s.status.current, !.hist.carried = 0]
    IN  IF s.status.current THEN afterSkip(s1) ELSE s1

\* The skip closure of a wait that is over: its resolve() has no effect.
skipSettled(s) ==
    [s EXCEPT !.status = Ready, !.skippedLastWait = TRUE, !.hist.carried = 0]

\* The continue closure of a pause that is over.
continueSettled(s) == [s EXCEPT !.status = Ready]

\* The continue closure of the paused status (View.ts 394-397).
continueClosure(s) == resolveUpdate([s EXCEPT !.status = Ready])

\* ChoiceElement.getScript: the script of the Object the Element holds now.
getScript(s, slot) ==
    IF ElementExists(s, slot) /\ s.elements[slot].object # NoId
    THEN s.objects[s.elements[slot].object].props.script
    ELSE ""

RECURSIVE retireOnSelects(_, _)
retireOnSelects(s, ids) ==
    IF ids = {} THEN s
    ELSE LET o == MinOf(ids)
         IN  retireOnSelects(
                 IF s.objects[o].state # "free" /\ s.objects[o].onSelect = "current"
                 THEN [s EXCEPT !.objects[o].onSelect = "stale"] ELSE s,
                 ids \ {o})

\* The closure View.update gives a choice (View.ts 345-353), past its test
\* of the status.
onSelect(s, o) ==
    LET s1 == [s EXCEPT !.status = Ready,
                        !.hist.evaluated = Append(@, getScript(s, s.objects[o].slot)),
                        !.hist.chosen = o,
                        !.objects[o].selected = TRUE]
    IN  IF s.objects[o].onSelect = "current"
        THEN retireOnSelects(resolveUpdate(s1), ObjIds)
        ELSE s1

\* A closure that does not look at the status.
clickUnchecked(s, o) ==
    IF s.objects[o].onSelect = "unset" THEN [s EXCEPT !.hist.ignored = TRUE]
    ELSE onSelect(s, o)

\* The click listener of a ChoiceObject (ChoiceObject.ts 19-27) running that
\* closure.
click(s, o) ==
    IF s.objects[o].onSelect = "unset" \/ s.status.type # "choice"
    THEN [s EXCEPT !.hist.ignored = TRUE]
    ELSE onSelect(s, o)

\* View.destroy (View.ts 494-497).
RECURSIVE destroyElements(_, _)
destroyElements(s, slots) ==
    IF slots = <<>> THEN s
    ELSE destroyElements(
             IF ElementExists(s, Head(slots)) THEN elementDestroy(s, Head(slots)) ELSE s,
             Tail(slots))

\* FrameClock.nextFrame (Clock.ts 255-265): Map.forEach visits the entries
\* that are still in the map when their turn comes.
RECURSIVE runFrameCallbacks(_, _, _)
runFrameCallbacks(s, ids, now) ==
    IF ids = <<>> THEN s
    ELSE runFrameCallbacks(
             IF Contains(s.frameCallbacks, Head(ids)) THEN update(s, Head(ids), now) ELSE s,
             Tail(ids), now)

nextFrame(s) ==
    LET s1 == [s EXCEPT !.frame = @ + 1]
        now == time(s1)
        s2 == runFrameCallbacks(s1, s1.frameCallbacks, now)
        fired == \E i \in 1 .. Len(s2.timeoutCallbacks) :
                    s2.timeoutCallbacks[i].time <= now /\ s2.timeoutCallbacks[i].current
        s3 == [s2 EXCEPT !.timeoutCallbacks = SelectSeq(@, LAMBDA c : c.time > now)]
    IN  continue(s3, fired)

(***************************************************************************)
(* Storage of the model: what the program can no longer reach is released, *)
(* so that the identifiers can be used again.  An Object that was handled  *)
(* wrongly is kept.                                                        *)
(***************************************************************************)
referenced(s, o) ==
    \/ \E slot \in Slots : ElementExists(s, slot) /\ s.elements[slot].object = o
    \/ \E i \in TransIds : /\ s.transitions[i].state = "live"
                           /\ ~s.transitions[i].isEnded
                           /\ s.transitions[i].owner.object = o
    \/ \E k \in 1 .. Len(s.gens) : /\ ~s.gens[k].done
                                   /\ o \in {s.gens[k].oldObject, s.gens[k].newObject}

collect(s) ==
    [s EXCEPT
        !.transitions = [i \in TransIds |->
            IF @[i].state = "live" /\ @[i].isEnded THEN NoTransition ELSE @[i]],
        !.objects = [o \in ObjIds |->
            IF /\ @[o].state = "created"
               /\ ~referenced(s, o)
               /\ @[o].destroyCount = 1
               /\ ~@[o].attached
               /\ ~(@[o].emptied /\ @[o].destroyedAt # 0)
            THEN NoObject ELSE @[o]],
        !.gens = [k \in 1 .. Len(@) |->
            IF @[k].done THEN [@[k] EXCEPT !.oldObject = NoId, !.newObject = NoId]
            ELSE @[k]]]

(***************************************************************************)
(* The set_property command (Command.ts 116-167) on the snapshot.          *)
(***************************************************************************)
setProperty(s, slot, name, value) ==
    IF \E i \in 1 .. Len(s.snapshot) : NameOf(s.snapshot[i]) = slot
    THEN [s EXCEPT !.snapshot = [i \in 1 .. Len(@) |->
                      IF NameOf(@[i]) = slot THEN [@[i] EXCEPT ![name] = value] ELSE @[i]]]
    ELSE [s EXCEPT !.snapshot = Append(@,
                      [NoProperties EXCEPT !.type = slot.type, !.index = slot.index,
                                           ![name] = value])]

PropertyInputs(slot) ==
    {<<"value", v>> : v \in SlotValues(slot) \cup {NoneValue}}
        \cup (IF slot.type = "choice" THEN {<<"script", "goto">>} ELSE {})

AnyMatcher == {<<Glob("*", AnyIndex), "*">>}
Matchers == {AnyMatcher, {<<Glob("figure", 0), "value">>}}

Request(type) == [NoOptionsRequest EXCEPT !.type = type]

\* No Clock on its own: the View has its FrameClock.
NoClock ==
    [kind |-> "none", frameRequestId |-> FALSE, timers |-> {}, calls |-> 0,
     last |-> "none", next |-> 1]

\* What the callbacks of a Clock on its own have recorded: the frame
\* callbacks registered when the last tick began and those it called, the
\* callbacks replaced or removed, the timeouts called, and whether a
\* callback was called that should not have been.
NoTicks ==
    [begun |-> <<>>, tick |-> <<>>, dead |-> {}, ran |-> {},
     stale |-> FALSE, twice |-> FALSE, early |-> FALSE]

\* What a caller of an ElementPropertyMatcher on its own has seen: the name
\* it asked for (its type, its index and its characters), the rules of the
\* matcher, the property matchers of the Matcher it was given, and the
\* answer of that Matcher to the property name it asked next.
(***************************************************************************)
(* TextObject (view/TextObject.ts).  An opacity of a span is counted in    *)
(* parts of FullOpacity, the opacity of the element in parts of Unit.      *)
(***************************************************************************)
ENTER_TRANSITION_WINDOW_SIZE == 5
FullOpacity == ENTER_TRANSITION_WINDOW_SIZE * Unit

\* new TextObject(text, locale, enterByGraphemeCluster) for a text of so
\* many grapheme clusters: one span for each if it enters by cluster.
NewTextObject(clusters, enterByGraphemeCluster) ==
    [enterByGraphemeCluster |-> enterByGraphemeCluster,
     spans |-> IF enterByGraphemeCluster THEN [k \in 1 .. clusters |-> FullOpacity] ELSE <<>>,
     value |-> Unit, isEnter |-> FALSE, opacity |-> Unit,
     count |-> Unset, threw |-> FALSE]

NoText == NewTextObject(0, FALSE)

\* A window that ends with the last span and not after it.
windowOverSpans(object, value, index) ==
    FullOpacity - Max(0, Min((index + ENTER_TRANSITION_WINDOW_SIZE) * Unit
                                 - value * Len(object.spans), FullOpacity))

\* The opacity the setter gives the span of an index (TextObject.ts 86-99):
\* indexCenter - windowStart is index + 5 - value * (length + 5 - 1).
spanOpacity(object, value, index) ==
    FullOpacity - Max(0, Min((index + ENTER_TRANSITION_WINDOW_SIZE) * Unit
                                 - value * (Len(object.spans) + ENTER_TRANSITION_WINDOW_SIZE - 1),
                             FullOpacity))

\* set value (TextObject.ts 75-104).
setValue(object, value) ==
    LET isEnter == IF value = 0 THEN TRUE
                   ELSE IF object.isEnter /\ value = Unit THEN FALSE
                   ELSE object.isEnter
    IN  IF isEnter /\ object.enterByGraphemeCluster
        THEN [object EXCEPT !.isEnter = isEnter, !.value = value, !.opacity = Unit,
                            !.spans = [k \in 1 .. Len(@) |-> spanOpacity(object, value, k - 1)]]
        ELSE [object EXCEPT !.isEnter = isEnter, !.value = value, !.opacity = value,
                            !.spans = [k \in 1 .. Len(@) |-> FullOpacity]]

\* get transitionElementCount (TextObject.ts 62-69).
transitionElementCount(object) ==
    IF ~object.enterByGraphemeCluster THEN [object EXCEPT !.threw = TRUE]
    ELSE [object EXCEPT !.count = Len(object.spans) + ENTER_TRANSITION_WINDOW_SIZE - 1]

NoMatch ==
    [calls |-> 0, type |-> <<>>, index |-> 0, elementName |-> <<>>, matchers |-> <<>>,
     propertyMatchers |-> <<>>, asked |-> <<>>, answer |-> FALSE]

\* What the callbacks of a Transition on its own have recorded, and the
\* time that has passed while it was running.
NoProbe ==
    [log |-> <<>>, calls |-> 0, last |-> "none", arg |-> 0, onStart |-> "none", promise |-> "none",
     made |-> 0, resolved |-> 0, active |-> 0,
     fired |-> [n \in {"start", "pause", "resume", "update", "end"} |-> 0]]

NoHist ==
    [overflow |-> FALSE, result |-> "none", evaluated |-> <<>>,
     choiceElements |-> <<>>, ignored |-> FALSE, replaced |-> FALSE,
     cycle |-> 0, chosen |-> NoId, wasPaused |-> FALSE,
     skipped |-> FALSE, carried |-> 0, orphaned |-> {},
     edited |-> FALSE, second |-> FALSE, threw |-> FALSE, probe |-> NoProbe,
     ticks |-> NoTicks, match |-> NoMatch, text |-> NoText,
     handed |-> {}, torn |-> FALSE]

\* The state after construction, and the state one skipped set_layout to
\* layout A later (UpdateSetLayout, then Skip, from the first).
Init ==
    /\ running = TRUE
    /\ snapshot = <<>>
    /\ layoutName \in {"none", "A"}
    /\ line = IF layoutName = "A" THEN 1 ELSE 0
    /\ engineLayoutName = layoutName
    /\ keepSkippingWait = FALSE
    /\ elements = [slot \in Slots |-> NoElement]
    /\ status = Ready
    /\ isSkipping = FALSE
    /\ isContinuing = FALSE
    /\ skippedLastWait = (layoutName = "A")
    /\ viewDestroyed = FALSE
    /\ nodeStyle = [n \in Nodes |->
                       setOpacity(IF layoutName \in elementLayouts[n] THEN Unit ELSE 0)]
    /\ layoutTransitions = <<>>
    /\ frame = 0
    /\ frameCallbacks = <<>>
    /\ timeoutCallbacks = <<>>
    /\ objects = [o \in ObjIds |-> NoObject]
    /\ transitions = [i \in TransIds |-> NoTransition]
    /\ pc = "idle"
    /\ options = NoOptionsRequest
    /\ gens = <<>>
    /\ awaited = {}
    /\ layoutGen = NoLayoutGen
    /\ clock = NoClock
    /\ hist = [NoHist EXCEPT !.result = IF layoutName = "A" THEN "resolved" ELSE "none"]

\* The engine runs its commands back to back: a frame, a load or a signal
\* of the user or the host gets its turn only while the update is suspended
\* or when the script is over (Engine.ts 230-251).
Script == running /\ pc = "idle"
Task == ~Script
Command == Script /\ line < MaxLines

\* One task of the event loop: the state it leaves behind.
\* hist.edited: the snapshot has changed since the last update began.
Step(t) ==
    /\ ~t.hist.overflow
    /\ SetState(collect([t EXCEPT !.hist.edited = @ \/ t.snapshot # snapshot]))

\* The script runs a set_property command on a figure or on a choice.
SetFigure ==
    /\ Command
    /\ \E slot \in {x \in Slots : x.type = "figure"} : \E in \in PropertyInputs(slot) :
           Step([setProperty(State, slot, in[1], in[2]) EXCEPT !.line = @ + 1])

SetChoice ==
    /\ Command
    /\ \E slot \in {x \in Slots : x.type = "choice"} : \E in \in PropertyInputs(slot) :
           Step([setProperty(State, slot, in[1], in[2]) EXCEPT !.line = @ + 1])

\* A script of two lines more, in which a slot can be set, replaced and
\* replaced or emptied again, each time with an update.
LongCommand == Script /\ line < MaxLines + 2

\* The script gives the first choice one of two texts.
SetChoiceText ==
    /\ LongCommand
    /\ \E text \in {"yes", "no"} :
           Step([setProperty(State, Slot("choice", 1), "value", text) EXCEPT !.line = @ + 1])

\* The script gives a figure one of two images or none.
SetFigureImage ==
    /\ LongCommand
    /\ \E slot \in {x \in Slots : x.type = "figure"} : \E image \in {"a.png", "b.png", NoneValue} :
           Step([setProperty(State, slot, "value", image) EXCEPT !.line = @ + 1])

\* The script waits for every transition.
UpdateWaitAll ==
    /\ LongCommand
    /\ Step(startUpdate(State, [Request("wait") EXCEPT !.matcher = AnyMatcher]))

\* The script snaps the value of the figures.
UpdateSnapValue ==
    /\ LongCommand
    /\ \E index \in {0, AnyIndex} :
           Step(startUpdate(State, [Request("snap") EXCEPT !.matcher = {<<Glob("figure", index), "value">>}]))

\* The script gives the first choice or the first figure a value or none.
SetFirst ==
    /\ Command
    /\ \E slot \in {Slot("choice", 1), Slot("figure", 1)} : \E value \in SlotValues(slot) \cup {NoneValue} :
           Step([setProperty(State, slot, "value", value) EXCEPT !.line = @ + 1])

\* The script runs a skip command (Command.ts 168-177).
SkipCommand ==
    /\ Command
    /\ ~keepSkippingWait
    /\ Step([State EXCEPT !.keepSkippingWait = TRUE, !.line = @ + 1])

\* The script reaches a suspension point: Engine.updateView with the
\* options of the pause, set_layout, delay, snap or wait command.
UpdatePause ==
    /\ Command
    /\ Step(startUpdate(State, Request("pause")))

UpdateSetLayout ==
    /\ Command
    /\ \E l \in RequestedLayouts :
           Step(startUpdate(State, [Request("set_layout") EXCEPT !.layoutName = l]))

UpdateDelay ==
    /\ Command
    /\ Step(startUpdate(State, [Request("delay") EXCEPT !.durationMillis = 500]))

UpdateSnap ==
    /\ Command
    /\ \E m \in Matchers : Step(startUpdate(State, [Request("snap") EXCEPT !.matcher = m]))

UpdateWait ==
    /\ Command
    /\ \E m \in Matchers : Step(startUpdate(State, [Request("wait") EXCEPT !.matcher = m]))

\* The script has no further command: the loop of Engine.execute ends.
EndScript ==
    /\ Script
    /\ Step([State EXCEPT !.running = FALSE])

\* The payload of a new Object has loaded: createObject resolves.
LoadResolve ==
    /\ pc \in {"loading", "rejected"}
    /\ \E k \in 1 .. Len(gens) :
        /\ gens[k].load = "pending"
        /\ LET s1 == [State EXCEPT !.gens[k].load = "resolved",
                                   !.objects[gens[k].newObject].state = "created"]
           IN  Step(IF pc = "loading" /\ AllLoaded(s1) THEN afterLoad(s1) ELSE s1)

\* The payload failed to load: createObject rejects (Element.ts 409-422).
LoadReject ==
    /\ pc \in {"loading", "rejected"}
    /\ \E k \in 1 .. Len(gens) :
        /\ gens[k].load = "pending"
        /\ LET s1 == [State EXCEPT !.gens[k].load = "rejected",
                                   !.gens[k].newObject = NoId,
                                   !.objects[gens[k].newObject] = NoObject]
           IN  Step(IF pc = "loading" THEN rejectUpdate(s1) ELSE s1)

\* The host advances the clock by one frame.
Tick ==
    /\ Task
    /\ frame < MaxFrame
    /\ Step(nextFrame(State))

\* The user skips: status.skip().
Skip ==
    /\ Task
    /\ status.type = "waiting"
    /\ Step(skip(State))

\* The user continues: status.continue().
Continue ==
    /\ Task
    /\ status.type = "paused"
    /\ Step(continueClosure(State))

\* The user selects through the status: status.select(index).
Select ==
    /\ Task
    /\ status.type = "choice"
    /\ \E i \in 1 .. Len(hist.choiceElements) :
        LET object == elements[hist.choiceElements[i]].object
        IN  /\ object # NoId
            /\ Step(click(State, object))

\* The user clicks a choice button that is in the document.
Click ==
    \E o \in ObjIds :
        /\ Task
        /\ objects[o].state = "created"
        /\ objects[o].slot.type = "choice"
        /\ objects[o].attached
        /\ Step(click(State, o))

\* The host switches the skip mode or the auto-continue mode.
SetSkipping ==
    \E b \in BOOLEAN : Task /\ b # isSkipping /\ Step([State EXCEPT !.isSkipping = b])

SetContinuing ==
    \E b \in BOOLEAN : Task /\ b # isContinuing /\ Step([State EXCEPT !.isContinuing = b])

\* The host tears the View down: View.destroy.
Destroy ==
    /\ Task
    /\ ~viewDestroyed
    \* observation: View.destroy has run during the update (hist.torn)
    /\ Step(continue([destroyElements(State, SlotSeq) EXCEPT !.viewDestroyed = TRUE,
                                                             !.hist.torn = TRUE], FALSE))

Next ==
    \/ EndScript
    \/ SetFigure
    \/ SetChoice
    \/ SkipCommand
    \/ UpdatePause
    \/ UpdateSetLayout
    \/ UpdateDelay
    \/ UpdateSnap
    \/ UpdateWait
    \/ LoadResolve
    \/ LoadReject
    \/ Tick
    \/ Skip
    \/ Continue
    \/ Select
    \/ Click
    \/ SetSkipping
    \/ SetContinuing
    \/ Destroy

\* The whole system.
Spec == Init /\ [][Next]_vars

\* A script of figures shown, changed, snapped and waited for.
NextLoad ==
    \/ EndScript
    \/ SetFigure
    \/ UpdateSnap
    \/ UpdateWait
    \/ LoadResolve
    \/ LoadReject
    \/ Tick

SpecLoad == Init /\ [][NextLoad]_vars

\* The same with layout switches and the teardown of the View.
NextElement ==
    \/ EndScript
    \/ SetFigure
    \/ UpdateSnap
    \/ UpdateSetLayout
    \/ LoadResolve
    \/ Tick
    \/ Destroy

SpecElement == Init /\ [][NextElement]_vars

\* A script of choices and pauses; the user selects or clicks.
NextChoice ==
    \/ EndScript
    \/ SetChoice
    \/ UpdatePause
    \/ Select
    \/ Click
    \/ Tick
    \/ SetSkipping
    \/ SetContinuing

SpecChoice == Init /\ [][NextChoice]_vars

\* A script of pauses and skip commands under the modes of the host.
NextPause ==
    \/ EndScript
    \/ SkipCommand
    \/ UpdatePause
    \/ Tick
    \/ Skip
    \/ Continue
    \/ SetSkipping
    \/ SetContinuing

SpecPause == Init /\ [][NextPause]_vars

\* A script of figures, waits, delays and skip commands; the user skips.
NextWait ==
    \/ EndScript
    \/ SetFigure
    \/ SkipCommand
    \/ UpdateDelay
    \/ UpdateWait
    \/ LoadResolve
    \/ Tick
    \/ Skip

SpecWait == Init /\ [][NextWait]_vars

\* A script of figures and layout switches.
NextLayout ==
    \/ EndScript
    \/ SetFigure
    \/ SkipCommand
    \/ UpdateSetLayout
    \/ LoadResolve
    \/ Tick
    \/ Skip

SpecLayout == Init /\ [][NextLayout]_vars

\* A script of skip commands, delays and layout switches.
NextSkip ==
    \/ EndScript
    \/ SkipCommand
    \/ UpdateDelay
    \/ UpdateSetLayout
    \/ Tick
    \/ Skip

SpecSkip == Init /\ [][NextSkip]_vars

\* A script that replaces what a figure and a choice show.
NextReplace ==
    \/ EndScript
    \/ SetFigureImage
    \/ SetChoiceText
    \/ UpdateWaitAll
    \/ LoadResolve
    \/ Tick

SpecReplace == Init /\ [][NextReplace]_vars

\* The host calls a skip closure it has kept from a wait that is over.
SkipAgain ==
    /\ Task
    /\ "skip" \in hist.handed
    /\ pc \notin {"layoutWait1", "layoutWait2", "waitWait", "delayWait", "continueWait"}
    /\ Step(skipSettled(State))

\* The host calls a continue closure it has kept from a pause that is over.
ContinueAgain ==
    /\ Task
    /\ "continue" \in hist.handed
    /\ pc # "paused"
    /\ Step(continueSettled(State))

\* A host that keeps the closures of the statuses it has seen.
NextStale ==
    \/ EndScript
    \/ SetChoice
    \/ SkipCommand
    \/ UpdatePause
    \/ UpdateDelay
    \/ Tick
    \/ Skip
    \/ Continue
    \/ Select
    \/ SkipAgain
    \/ ContinueAgain

SpecStale == Init /\ [][NextStale]_vars

\* A script that shows figures and choices and switches the layout.
NextSwitch ==
    \/ EndScript
    \/ SetFirst
    \/ UpdateSetLayout
    \/ LoadResolve
    \/ Tick
    \/ Skip

SpecSwitch == Init /\ [][NextSwitch]_vars

\* A script that replaces and moves figures and snaps the value of some.
NextSweep ==
    \/ EndScript
    \/ SetFigureImage
    \/ UpdateSnapValue
    \/ LoadResolve
    \/ Tick

SpecSweep == Init /\ [][NextSweep]_vars

(***************************************************************************)
(* A Transition on its own: the calls of its interface in any order, with  *)
(* callbacks that record their calls.  The time of an update is the time   *)
(* of the frame clock.                                                     *)
(***************************************************************************)
Probe == 1
ProbeOwner == Owner("probe", NoSlot, NoId, "", 0, "")
Durations == {0, 500}
Delays == {0, 250}
Fractions == {0 - 500, 0, 500, Unit, 1500}

InitTransition ==
    /\ running = FALSE
    /\ snapshot = <<>>
    /\ layoutName = "none"
    /\ line = 0
    /\ engineLayoutName = layoutName
    /\ keepSkippingWait = FALSE
    /\ elements = [slot \in Slots |-> NoElement]
    /\ status = Ready
    /\ isSkipping = FALSE
    /\ isContinuing = FALSE
    /\ skippedLastWait = FALSE
    /\ viewDestroyed = FALSE
    /\ nodeStyle = [n \in Nodes |-> setOpacity(0)]
    /\ layoutTransitions = <<>>
    /\ frame = 0
    /\ frameCallbacks = <<>>
    /\ timeoutCallbacks = <<>>
    /\ objects = [o \in ObjIds |-> NoObject]
    /\ \E duration \in Durations, delay \in Delays, startValue \in {0, Unit} :
          transitions = [i \in TransIds |->
              IF i = Probe
              THEN NewTransition(startValue, Unit - startValue, duration, delay,
                                 "linear", ProbeOwner)
              ELSE NoTransition]
    /\ pc = "idle"
    /\ options = NoOptionsRequest
    /\ gens = <<>>
    /\ awaited = {}
    /\ layoutGen = NoLayoutGen
    /\ clock = NoClock
    /\ \E onStart \in {"none", "cancel"} :
          hist = [NoHist EXCEPT !.probe.onStart = onStart]

\* The state in which a call begins.
Enter(name, arg) ==
    [State EXCEPT !.hist.threw = FALSE, !.hist.probe.calls = @ + 1,
                  !.hist.probe.last = name, !.hist.probe.arg = arg,
                  !.hist.probe.log = <<>>]

Called ==
    /\ transitions[Probe].state = "live"
    /\ transitions[Probe].owner.kind = "probe"
    /\ hist.probe.calls < MaxCalls

CallStart == Called /\ SetState(start(Enter("start", 0), Probe))

CallPause == Called /\ SetState(pause(Enter("pause", 0), Probe))

CallResume == Called /\ SetState(resume(Enter("resume", 0), Probe))

CallCancel ==
    /\ Called
    /\ \E snapToEnd \in BOOLEAN :
          SetState(cancelSnap(Enter("cancel", IF snapToEnd THEN 1 ELSE 0),
                              Probe, snapToEnd))

CallSetFraction ==
    /\ Called
    /\ \E f \in Fractions : SetState(setFraction(Enter("fraction", f), Probe, f))

\* The state after the time of so many frames has passed.
Elapse(s, frames) ==
    [s EXCEPT !.frame = @ + frames,
              !.hist.probe.active =
                  IF isRunning(s.transitions[Probe]) THEN @ + frames * FrameTime ELSE @]

\* The clock calls update with its time, which does not go back.
CallUpdate ==
    /\ Called
    /\ \E frames \in {0, 1} :
          /\ frame + frames <= MaxFrame
          /\ LET s == Elapse(Enter("update", frames), frames)
             IN  SetState(update(s, Probe, time(s)))

\* Time passes and nothing is called.
TimePasses ==
    /\ transitions[Probe].state = "live"
    /\ transitions[Probe].owner.kind = "probe"
    /\ frame < MaxFrame
    /\ SetState(Elapse(State, 1))

CallAsPromise == Called /\ SetState(asPromise(Enter("asPromise", 0), Probe))

NextTransition ==
    \/ CallStart
    \/ CallPause
    \/ CallResume
    \/ CallCancel
    \/ CallSetFraction
    \/ CallUpdate
    \/ CallAsPromise

SpecTransition == InitTransition /\ [][NextTransition]_vars

\* A Transition that is started, paused, resumed and updated while time
\* passes, between the calls as well.
NextPausing ==
    \/ CallStart
    \/ CallPause
    \/ CallResume
    \/ CallUpdate
    \/ TimePasses

SpecPausing == InitTransition /\ [][NextPausing]_vars

(***************************************************************************)
(* A Clock on its own, of either class: the calls of its interface in any  *)
(* order, the frames and the timers of the browser.  For the DOMClock the  *)
(* variable frame counts the time that has passed.                         *)
(***************************************************************************)
ClockIds == 1 .. 2
TimeoutDelays == {0, 250}
Behaviours ==
    {[act |-> "none", target |-> 0], [act |-> "removeSelf", target |-> 0]}
        \cup {[act |-> act, target |-> id] : act \in {"remove", "add"}, id \in ClockIds}

InitClock ==
    /\ running = FALSE
    /\ snapshot = <<>>
    /\ layoutName = "none"
    /\ line = 0
    /\ engineLayoutName = layoutName
    /\ keepSkippingWait = FALSE
    /\ elements = [slot \in Slots |-> NoElement]
    /\ status = Ready
    /\ isSkipping = FALSE
    /\ isContinuing = FALSE
    /\ skippedLastWait = FALSE
    /\ viewDestroyed = FALSE
    /\ nodeStyle = [n \in Nodes |-> setOpacity(0)]
    /\ layoutTransitions = <<>>
    /\ frame = 0
    /\ frameCallbacks = <<>>
    /\ timeoutCallbacks = <<>>
    /\ objects = [o \in ObjIds |-> NoObject]
    /\ transitions = [i \in TransIds |-> NoTransition]
    /\ pc = "idle"
    /\ options = NoOptionsRequest
    /\ gens = <<>>
    /\ awaited = {}
    /\ layoutGen = NoLayoutGen
    /\ \E kind \in {"frame", "dom"} : clock = [NoClock EXCEPT !.kind = kind]
    /\ hist = NoHist

ClockCalled == clock.kind # "none" /\ clock.calls < MaxClockCalls

Counted(name) == [State EXCEPT !.clock.calls = @ + 1, !.clock.last = name]

ClockAddFrame ==
    /\ ClockCalled
    /\ \E id \in ClockIds, b \in Behaviours :
          SetState(clockAddFrameCallback(Counted("addFrameCallback"), id, b.act, b.target))

ClockRemoveFrame ==
    /\ ClockCalled
    /\ \E id \in ClockIds : SetState(clockRemoveFrameCallback(Counted("removeFrameCallback"), id))

ClockAddTimeout ==
    /\ ClockCalled
    /\ \E id \in ClockIds, delay \in TimeoutDelays :
          SetState(clockAddTimeoutCallback(Counted("addTimeoutCallback"), delay, id))

ClockRemoveTimeout ==
    /\ ClockCalled
    /\ \E id \in ClockIds : SetState(clockRemoveTimeoutCallback(Counted("removeTimeoutCallback"), id))

\* The host calls FrameClock.nextFrame.
ClockNextFrame ==
    /\ ClockCalled
    /\ clock.kind = "frame"
    /\ frame < MaxFrame
    /\ SetState(clockNextFrame(Counted("nextFrame")))

\* Time passes in the browser.
ClockPass ==
    /\ ClockCalled
    /\ clock.kind = "dom"
    /\ frame < MaxFrame
    /\ SetState([Counted("pass") EXCEPT !.frame = @ + 1])

\* The browser runs the frame requested.
ClockAnimationFrame ==
    /\ ClockCalled
    /\ clock.kind = "dom"
    /\ clock.frameRequestId
    /\ SetState(animationFrame(Counted("nextFrame")))

\* The browser runs a timer that is due.
ClockTimeout ==
    /\ ClockCalled
    /\ clock.kind = "dom"
    /\ \E timer \in clock.timers :
          /\ timer.time <= time(State)
          /\ SetState(timerFired(Counted("timeout"), timer))

NextClock ==
    \/ ClockAddFrame
    \/ ClockRemoveFrame
    \/ ClockAddTimeout
    \/ ClockRemoveTimeout
    \/ ClockNextFrame
    \/ ClockPass
    \/ ClockAnimationFrame
    \/ ClockTimeout

SpecClock == InitClock /\ [][NextClock]_vars

(***************************************************************************)
(* An ElementPropertyMatcher on its own, made of up to MaxRules rules:      *)
(* getPropertyMatcher for the name of an element, then match of the        *)
(* Matcher it returns.  An element name                                    *)
(* is its type followed by its index in decimal, or its type alone         *)
(* (ElementProperties.ts 109-120).                                         *)
(***************************************************************************)
Figure == <<"f", "i", "g", "u", "r", "e">>
Text == <<"t", "e", "x", "t">>
TypeNames == {Figure, Text}
\* 0 stands for a name without an index.
Indexes == {0, 1, 2, 10, 11, 21}
ElementName(type, index) == IF index = 0 THEN type ELSE type \o Decimal(index)

ElementPatterns ==
    {<<"*">>, Figure, Figure \o <<"1">>, Figure \o <<"*">>, Figure \o <<"?">>,
     Figure \o <<"2">>, Figure \o <<"1", "1">>, Figure \o <<"2", "1">>, Text}
PropertyPatterns == {<<"*">>, <<"v", "a", "l", "u", "e">>}
PropertyNames24 == {<<"v", "a", "l", "u", "e">>, <<"x">>}
Rules == {<<e, p>> : e \in ElementPatterns, p \in PropertyPatterns}
RuleLists == UNION {[1 .. n -> Rules] : n \in 0 .. MaxRules}

InitMatcher ==
    /\ running = FALSE
    /\ snapshot = <<>>
    /\ layoutName = "none"
    /\ line = 0
    /\ engineLayoutName = layoutName
    /\ keepSkippingWait = FALSE
    /\ elements = [slot \in Slots |-> NoElement]
    /\ status = Ready
    /\ isSkipping = FALSE
    /\ isContinuing = FALSE
    /\ skippedLastWait = FALSE
    /\ viewDestroyed = FALSE
    /\ nodeStyle = [n \in Nodes |-> setOpacity(0)]
    /\ layoutTransitions = <<>>
    /\ frame = 0
    /\ frameCallbacks = <<>>
    /\ timeoutCallbacks = <<>>
    /\ objects = [o \in ObjIds |-> NoObject]
    /\ transitions = [i \in TransIds |-> NoTransition]
    /\ pc = "idle"
    /\ options = NoOptionsRequest
    /\ gens = <<>>
    /\ awaited = {}
    /\ layoutGen = NoLayoutGen
    /\ clock = NoClock
    /\ \E matchers \in RuleLists : hist = [NoHist EXCEPT !.match.matchers = matchers]

\* getPropertyMatcher(elementName) of the ElementPropertyMatcher.
CallGetPropertyMatcher ==
    \E type \in TypeNames, index \in Indexes :
        SetState([State EXCEPT !.hist.match =
            [calls |-> 1, type |-> type, index |-> index,
             elementName |-> ElementName(type, index), matchers |-> @.matchers,
             propertyMatchers |-> filterMatchers(@.matchers, ElementName(type, index)),
             asked |-> <<>>, answer |-> FALSE]])

\* match(propertyName) of the Matcher that was returned.
CallMatch ==
    /\ hist.match.calls > 0
    /\ \E propertyName \in PropertyNames24 :
          SetState([State EXCEPT
              !.hist.match.asked = propertyName,
              !.hist.match.answer = someMatch(hist.match.propertyMatchers, propertyName)])

NextMatcher ==
    \/ CallGetPropertyMatcher
    \/ CallMatch

SpecMatcher == InitMatcher /\ [][NextMatcher]_vars

(***************************************************************************)
(* A TextObject on its own: a text of some clusters whose value is set and *)
(* whose transition element count is read.                                 *)
(***************************************************************************)
Values == {(k * Unit) \div ValueSteps : k \in 0 .. ValueSteps}

InitText ==
    /\ running = FALSE
    /\ snapshot = <<>>
    /\ layoutName = "none"
    /\ line = 0
    /\ engineLayoutName = layoutName
    /\ keepSkippingWait = FALSE
    /\ elements = [slot \in Slots |-> NoElement]
    /\ status = Ready
    /\ isSkipping = FALSE
    /\ isContinuing = FALSE
    /\ skippedLastWait = FALSE
    /\ viewDestroyed = FALSE
    /\ nodeStyle = [n \in Nodes |-> setOpacity(0)]
    /\ layoutTransitions = <<>>
    /\ frame = 0
    /\ frameCallbacks = <<>>
    /\ timeoutCallbacks = <<>>
    /\ objects = [o \in ObjIds |-> NoObject]
    /\ transitions = [i \in TransIds |-> NoTransition]
    /\ pc = "idle"
    /\ options = NoOptionsRequest
    /\ gens = <<>>
    /\ awaited = {}
    /\ layoutGen = NoLayoutGen
    /\ clock = NoClock
    /\ \E clusters \in 1 .. MaxClusters, enterByGraphemeCluster \in BOOLEAN :
          hist = [NoHist EXCEPT !.text = NewTextObject(clusters, enterByGraphemeCluster)]

\* object.value = value, as setPropertyValue does for a Transition.
SetTextValue ==
    \E value \in Values : SetState([State EXCEPT !.hist.text = setValue(@, value)])

\* TextElement.getTransitionElementCount for an entering object.
GetTransitionElementCount ==
    SetState([State EXCEPT !.hist.text = transitionElementCount(@)])

NextText ==
    \/ SetTextValue
    \/ GetTransitionElementCount

SpecText == InitText /\ [][NextText]_vars


(***************************************************************************)
(* Properties.                                                             *)
(***************************************************************************)
\* C1: in a reconciliation cycle no element has run its second half - the
\* commit that attaches, cancels, starts and replaces - while the load future
\* of any element of the cycle is not completed.
C1_CommitAfterAllLoads ==
    \A k \in 1 .. Len(gens) :
        gens[k].done => \A j \in 1 .. Len(gens) : gens[j].load = "resolved"

\* Two elements that both had a payload to load have committed.
C1_Witness ==
    /\ Len(gens) = 2
    /\ \A k \in 1 .. Len(gens) :
        /\ gens[k].done
        /\ ~gens[k].noop
        /\ gens[k].newProperties.type = "figure"
        /\ resolveElementValue(gens[k].newProperties) # Undefined
        /\ resolveElementValue(gens[k].oldProperties) = Undefined

\* The unended Transitions of an (Object, property) pair that an Element
\* tracks or the Clock has as a frame callback.
Unended(t) == t.state = "live" /\ ~t.isEnded
SamePair(t, u) ==
    /\ t.owner.kind = "element" /\ u.owner.kind = "element"
    /\ t.owner.object = u.owner.object
    /\ t.owner.propertyName = u.owner.propertyName
IsTracked(i) == \E slot \in Slots : ElementExists(State, slot) /\ Contains(elements[slot].tracked, i)
IsRegistered(i) == Contains(frameCallbacks, i)

C2_AtMostOne ==
    \A i, j \in TransIds :
        /\ i # j
        /\ Unended(transitions[i]) /\ Unended(transitions[j])
        /\ IsTracked(i) \/ IsRegistered(i)
        /\ IsTracked(j) \/ IsRegistered(j)
        => ~SamePair(transitions[i], transitions[j])

C2_PreviousCanceled ==
    \A i, j \in TransIds :
        /\ transitions[i].state = "free" /\ Unended(transitions'[i])
        /\ Unended(transitions[j])
        /\ SamePair(transitions'[i], transitions[j])
        => /\ ~Unended(transitions'[j])
           /\ ~Contains(frameCallbacks', j)

\* C2: an (Object, property) pair never has two unended Transitions that are
\* tracked by the Element or registered with the Clock, and a step that
\* starts a Transition for a pair leaves the pair's previous Transition
\* ended and unregistered.
C2_OneTransitionPerPair == [](C2_AtMostOne) /\ [][C2_PreviousCanceled]_vars

\* The commit of this cycle started a fade for a pair that had an unended
\* Transition, and the new fade is still in progress.
C2_Witness ==
    /\ hist.replaced
    /\ \E i \in TransIds :
        /\ Unended(transitions[i])
        /\ IsTracked(i) /\ IsRegistered(i)
        /\ transitions[i].owner.propertyName = "value"
        /\ transitions[i].endValue = 0
        /\ transitions[i].lastUpdateTime = NaN

\* The fade to 0 of an Object is under way: unended, tracked and registered.
FadingOut(o) ==
    \E i \in TransIds :
        /\ Unended(transitions[i])
        /\ IsTracked(i) /\ IsRegistered(i)
        /\ transitions[i].owner.kind = "element"
        /\ transitions[i].owner.object = o
        /\ transitions[i].owner.propertyName = "value"
        /\ transitions[i].endValue = 0

\* C3: an Object whose slot was given the empty value is detached and
\* destroyed exactly once and with its value at 0: until then its fade to 0
\* is under way, and it is never detached or destroyed a second time.
C3_DestroyedOnceAtZero ==
    \A o \in ObjIds :
        objects[o].state = "created" /\ objects[o].emptied =>
            /\ objects[o].destroyCount <= 1
            /\ objects[o].detachCount <= 1
            /\ objects[o].destroyCount = 1 =>
                   objects[o].destroyedAt = 0 /\ ~objects[o].attached
            /\ objects[o].destroyCount = 0 => FadingOut(o)

\* The same while View.destroy has not run.
C3_BeforeViewDestroy == ~viewDestroyed => C3_DestroyedOnceAtZero

\* A choice slot of the snapshot has a value other than none.
VisibleChoice(snap) ==
    \E i \in 1 .. Len(snap) :
        snap[i].type = "choice" /\ resolveElementValue(snap[i]) # Undefined

\* The step begins a View.update.
UpdateBegins == hist'.cycle # hist.cycle

\* A pause with a visible choice goes from its loading phase, at once or
\* later, to the choice status and to nothing else.
C4_Enter ==
    /\ UpdateBegins /\ options'.type = "pause" /\ VisibleChoice(snapshot)
           => \/ pc' = "loading"
              \/ pc' = "choice" /\ status'.type = "choice" /\ hist'.evaluated = <<>>
    /\ pc = "loading" /\ pc' \notin {"loading", "rejected"}
         /\ options.type = "pause" /\ VisibleChoice(snapshot)
           => pc' = "choice" /\ status'.type = "choice" /\ hist'.evaluated = <<>>

\* It resolves in a step that selects a choice in the choice status and
\* evaluates the script of that choice.
C4_Leave ==
    pc = "choice" /\ pc' # "choice" =>
        /\ status.type = "choice"
        /\ pc' = "idle" /\ line' = line + 1 /\ status' = Ready
        /\ hist'.chosen # NoId
        /\ objects[hist'.chosen].state = "created"
        /\ objects[hist'.chosen].onSelect = "current"
        /\ objects'[hist'.chosen].selected
        /\ hist'.evaluated = <<objects[hist'.chosen].props.script>>

\* Outside the choice status no step evaluates a script.
C4_Ignored ==
    status.type # "choice" /\ ~UpdateBegins => hist'.evaluated = hist.evaluated

C4_Once ==
    /\ Len(hist.evaluated) <= 1
    /\ pc = "choice" /\ status.type = "choice" => hist.evaluated = <<>>

\* C4: a pause with a visible choice sets the status to choice; the update
\* resolves only in a step that selects a choice, which evaluates that
\* choice's script once; selections outside the choice status are ignored.
C4_ChoicePause == [](C4_Once) /\ [][C4_Enter /\ C4_Leave /\ C4_Ignored]_vars

\* A pause with a choice was resolved by a selection that evaluated the
\* choice's script, and a later click was ignored.
C4_Witness ==
    /\ pc = "idle" /\ options.type = "pause" /\ hist.result = "resolved"
    /\ VisibleChoice(snapshot)
    /\ hist.evaluated = <<"goto">>
    /\ hist.ignored
    /\ \E o \in ObjIds : objects[o].state = "created" /\ objects[o].selected

\* A pause without a visible choice, outside the skip and continue modes,
\* goes from its loading phase to the paused status.
C5_Enter ==
    /\ UpdateBegins /\ options'.type = "pause" /\ ~VisibleChoice(snapshot)
         /\ ~isSkipping /\ ~isContinuing
           => \/ pc' = "loading"
              \/ pc' = "paused" /\ status'.type = "paused"
    /\ pc = "loading" /\ pc' \notin {"loading", "rejected"}
         /\ options.type = "pause" /\ ~VisibleChoice(snapshot)
         /\ ~isSkipping /\ ~isContinuing
           => pc' = "paused" /\ status'.type = "paused"

\* The paused update resolves in a step that is the continue closure: no
\* frame, no change of mode, from the paused status to ready.
C5_Leave ==
    pc = "paused" /\ pc' # "paused" =>
        /\ status.type = "paused" /\ status' = Ready
        /\ pc' = "idle" /\ line' = line + 1 /\ hist'.result = "resolved"
        /\ frame' = frame
        /\ isSkipping' = isSkipping /\ isContinuing' = isContinuing

\* C5: a pause with no visible choice and neither mode active sets the
\* status to paused; the update stays paused until continue() is invoked,
\* which resolves it and leaves the status ready.
C5_Paused == [](pc = "paused" => status.type = "paused") /\ [][C5_Enter /\ C5_Leave]_vars

\* Such a pause has been resolved by continue() after frames and mode
\* changes that left it paused.
C5_Witness ==
    /\ pc = "idle" /\ options.type = "pause" /\ hist.result = "resolved"
    /\ status = Ready
    /\ ~VisibleChoice(snapshot)
    /\ frame > 0 /\ isSkipping
    /\ hist.wasPaused

TimeoutTimes(q) == [i \in 1 .. Len(q) |-> q[i].time]

\* A wait or delay that ends in a step without a frame ends by skip(): the
\* update resolves and nothing it waited for is canceled or changed.
C6_SkipWins ==
    pc \in {"waitWait", "delayWait"} /\ pc' # pc /\ frame' = frame =>
        /\ status.type = "waiting" /\ status' = Ready
        /\ pc' = "idle" /\ line' = line + 1 /\ hist'.result = "resolved"
        /\ transitions' = transitions
        /\ frameCallbacks' = frameCallbacks
        /\ TimeoutTimes(timeoutCallbacks') = TimeoutTimes(timeoutCallbacks)
        /\ objects' = objects
        /\ elements' = elements

\* In a frame it ends exactly when what it waits for completes: every
\* awaited transition ended, or the timeout of the delay due.
C6_NaturalEnd ==
    /\ pc = "waitWait" /\ frame' = frame + 1 =>
           (pc' = "idle" /\ line' = line + 1
               <=> \A i \in awaited : ~Unended(transitions'[i]))
    /\ pc = "delayWait" /\ frame' = frame + 1 =>
           (pc' = "idle" /\ line' = line + 1
               <=> \E i \in 1 .. Len(timeoutCallbacks) :
                      /\ timeoutCallbacks[i].current
                      /\ timeoutCallbacks[i].time <= frame' * FrameTime)

\* What completes when no update is pending changes nothing of the update.
C6_LoserIgnored ==
    pc = "idle" /\ frame' = frame + 1 =>
        /\ pc' = "idle" /\ line' = line
        /\ status' = status /\ skippedLastWait' = skippedLastWait
        /\ hist' = hist

\* C6: a wait or a delay resolves in the step in which what it awaits
\* completes or in which skip() is invoked, whichever comes first; a skip
\* cancels nothing, and what completes afterwards has no effect on the update.
C6_WaitOrSkip == [][C6_SkipWins /\ C6_NaturalEnd /\ C6_LoserIgnored]_vars

\* A wait was ended by skip() while a fade it awaited was in progress, and
\* the fade has since run to its end by itself.
C6_Witness ==
    /\ pc = "idle" /\ options.type = "wait" /\ hist.skipped
    /\ \A i \in TransIds : ~Unended(transitions[i])
    /\ \E o \in ObjIds :
        /\ objects[o].state = "created" /\ objects[o].attached
        /\ objects[o].props.value = Unit
    /\ frameCallbacks = <<>>


(***************************************************************************)
(* C7: the remembered skip and the waits that ask to keep skipping.        *)
(***************************************************************************)
\* The step reaches the waitOrSkip of a wait or delay request.
WaitReached ==
    \/ UpdateBegins /\ options'.type \in {"wait", "delay"}
          /\ pc' \notin {"loading", "rejected"}
    \/ pc = "loading" /\ options.type \in {"wait", "delay"}
          /\ pc' \notin {"loading", "rejected"}

\* A keep-skipping wait reached while the skip is remembered returns at
\* once and leaves the skip remembered.
C7_Carried ==
    WaitReached /\ keepSkippingWait /\ skippedLastWait /\ ~isSkipping
        => /\ pc' = "idle" /\ hist'.result = "resolved"
           /\ skippedLastWait'
           /\ hist'.carried = hist.carried + 1

\* The second wait of set_layout after a skipped first wait returns at once.
C7_SecondWait ==
    pc = "layoutWait1" /\ hist'.skipped
        => pc' = "idle" /\ skippedLastWait' /\ hist'.carried = 1

\* A keep-skipping wait reached with no skip remembered blocks.
C7_Blocks ==
    WaitReached /\ keepSkippingWait /\ ~skippedLastWait /\ ~isSkipping
        => /\ status'.type = "waiting"
           /\ hist'.carried = 0
           /\ (options'.type = "delay" => pc' = "delayWait")

\* The remembered skip is forgotten only by a wait that blocks, which a
\* wait reached while keep-skipping is requested never does.
C7_Forgotten ==
    skippedLastWait /\ ~skippedLastWait'
        => ~keepSkippingWait /\ ~isSkipping /\ status'.type = "waiting"

\* A skip is remembered only by a call of skip().
C7_Remembered ==
    ~skippedLastWait /\ skippedLastWait'
        => status.type = "waiting" /\ frame' = frame /\ hist'.carried <= 1

\* C7 (as stated): after a wait was ended by skip(), the skip is carried
\* over to exactly one later keep-skipping wait; a further keep-skipping
\* wait blocks again unless a new skip() call skips it.
C7_ExactlyOne == hist.carried <= 1

\* C7 (amended): after a wait was ended by skip(), every keep-skipping wait
\* reached before some wait blocks returns at once and leaves the skip
\* remembered; the skip is forgotten only when a wait that does not ask to
\* keep skipping blocks, and a keep-skipping wait after that blocks again.
C7_CarriedUntilBlocked ==
    [][C7_Carried /\ C7_SecondWait /\ C7_Blocks /\ C7_Forgotten /\ C7_Remembered]_vars

\* Two keep-skipping waits in a row have returned at once since the last
\* skip() call, and the skip is still remembered.
C7_Witness ==
    /\ hist.carried >= 2
    /\ skippedLastWait
    /\ pc = "idle" /\ hist.result = "resolved"


(***************************************************************************)
(* C8: a failed construction rejects the update and commits nothing.       *)
(***************************************************************************)
\* The construction of some element of the cycle has failed.
Failed(g) == \E k \in 1 .. Len(g) : g[k].load = "rejected"

Attached(objs) == {o \in ObjIds : objs[o].state # "free" /\ objs[o].attached}

\* Once a construction of the cycle has failed the update is rejected and
\* no element of the cycle has committed.
C8_NoCommit ==
    Failed(gens) =>
        /\ pc = "rejected" /\ hist.result = "rejected"
        /\ \A k \in 1 .. Len(gens) : ~gens[k].done

\* A step that fails a construction, or follows one, attaches no Object,
\* starts and cancels no transition and leaves the object, the properties
\* and the options of every Element alone.
C8_Unchanged ==
    Failed(gens') =>
        /\ Attached(objects') \subseteq Attached(objects)
        /\ \A i \in TransIds :
               /\ transitions'[i].state = "live"
                      => /\ transitions[i].state = "live"
                         /\ transitions'[i].owner = transitions[i].owner
                         /\ transitions'[i].startValue = transitions[i].startValue
                         /\ transitions'[i].endValue = transitions[i].endValue
               /\ (transitions[i].state = "live" /\ transitions'[i] # transitions[i])
                      => frame' # frame
        /\ \A slot \in Slots :
               /\ elements'[slot].state = elements[slot].state
               /\ ElementExists(State, slot)
                      => /\ elements'[slot].object = elements[slot].object
                         /\ elements'[slot].properties = elements[slot].properties
                         /\ elements'[slot].options = elements[slot].options

\* C8: if the phase-1 construction of any element of a cycle fails, the
\* update rejects and no element of the cycle commits: no Object is
\* attached, no property transition is canceled or started, and no Element's
\* object, properties or options change.
C8_NoPartialCommit == [](C8_NoCommit) /\ [][C8_Unchanged]_vars

\* One construction of the cycle failed while another element of the cycle,
\* which holds an Object to replace, has its new Object loaded.
C8_Witness ==
    /\ Failed(gens)
    /\ \E k \in 1 .. Len(gens) :
           /\ gens[k].load = "resolved"
           /\ gens[k].newObject # NoId
           /\ gens[k].oldObject # NoId
           /\ elements[gens[k].slot].object = gens[k].oldObject


(***************************************************************************)
(* C9: the enter fades of set_layout wait for the old layout to leave.     *)
(***************************************************************************)
\* The unended fades of the Layout towards an opacity.
LayoutFades(opacity) ==
    {i \in SeqToSet(layoutTransitions) :
        Unended(transitions[i]) /\ transitions[i].endValue = opacity}

\* The Elements of the exit types of the update and their snapshot entries.
Orphans ==
    {slot \in Slots : /\ Contains(layoutGen.exitElementTypes, slot.type)
                      /\ \/ ElementExists(State, slot)
                         \/ \E k \in 1 .. Len(snapshot) :
                                /\ NameOf(snapshot[k]) = slot
                                /\ resolveElementValue(snapshot[k]) # Undefined}

\* C9: during a set_layout update no enter fade of the new layout is under
\* way while an exit fade of the old layout has not ended or an Element of
\* an exit type is still there: the enter fades start only after every
\* exit fade has ended, naturally or snapped, and every orphaned Element
\* has been destroyed and removed.
C9_EnterAfterExit ==
    /\ LayoutFades(Unit) # {} => LayoutFades(0) = {} /\ Orphans = {}
    /\ \A n \in Nodes :
           (nodeStyle[n].opacity # Unset /\ ~nodeStyle[n].hidden)
               => \A m \in Nodes \ {n} : nodeStyle[m].opacity = Unset
    /\ pc = "layoutWait1" => LayoutFades(Unit) = {}
    /\ pc = "layoutWait2" => LayoutFades(0) = {} /\ Orphans = {}

\* The layout switch is in its second wait: the enter fade of the new
\* layout runs, the panel of the old layout is hidden and the figure of
\* the old layout was destroyed and removed.
C9_Witness ==
    /\ pc = "layoutWait2"
    /\ LayoutFades(Unit) # {}
    /\ hist.orphaned # {}
    /\ \E n \in Nodes : nodeStyle[n].hidden /\ layoutName \notin elementLayouts[n]


(***************************************************************************)
(* C10: a second set_layout to the active layout.                          *)
(***************************************************************************)
\* C10: when the active layout is already L and the snapshot has not
\* changed since the previous set_layout(L), a second set_layout(L) update
\* creates no Element, destroys no Element, starts no element or layout
\* transition, and Layout.transition(L) yields an empty exit set.
C10_SecondSetLayout ==
    [][hist'.second =>
          /\ \A slot \in Slots : elements'[slot].state = elements[slot].state
          /\ \A i \in TransIds :
                 transitions'[i].state = "live"
                     => /\ transitions[i].state = "live"
                        /\ transitions'[i].owner = transitions[i].owner
                        /\ transitions'[i].startValue = transitions[i].startValue
                        /\ transitions'[i].endValue = transitions[i].endValue
          /\ layoutGen'.exitElementTypes = <<>>
          /\ hist'.orphaned = {}]_vars

(***************************************************************************)
(* The Transition on its own.                                              *)
(***************************************************************************)
\* The call that has just returned.
Returned(name) ==
    /\ hist'.probe.calls = hist.probe.calls + 1
    /\ hist'.probe.last = name

Fired(log, name) == \E i \in 1 .. Len(log) : log[i] = name

\* C11: a Transition with duration 0, whatever its delay, has ended when
\* start() returns: its fraction is 1, isEnded is true, currentValue is the
\* end value, and the update and the end callbacks have been called.
C11_EndsInStart ==
    [][(/\ Returned("start")
        /\ ~transitions[Probe].isStarted
        /\ ~transitions[Probe].isEnded
        /\ transitions[Probe].duration = 0)
       => (/\ fraction(transitions'[Probe]) = Unit
           /\ transitions'[Probe].isStarted
           /\ transitions'[Probe].isEnded
           /\ transitions'[Probe].currentValue = transitions'[Probe].endValue
           /\ Fired(hist'.probe.log, "update")
           /\ Fired(hist'.probe.log, "end"))]_vars

C11_Witness ==
    /\ hist.probe.last = "start"
    /\ hist.probe.calls = 1
    /\ hist.probe.onStart = "none"
    /\ transitions[Probe].duration = 0
    /\ transitions[Probe].delay = 250
    /\ transitions[Probe].isEnded
    /\ transitions[Probe].currentValue = transitions[Probe].endValue
    /\ hist.probe.log = <<"start", "update", "end">>

\* The original reading of C12: between two observations of a running
\* Transition its fraction does not decrease, whatever was called.
C12_NeverDecreases ==
    [][isRunning(transitions[Probe]) /\ isRunning(transitions'[Probe])
       => fraction(transitions'[Probe]) >= fraction(transitions[Probe])]_vars

\* C12: the fraction of a Transition is always within [0, 1]; no call of
\* start, pause, resume, update, cancel or asPromise lowers it, and an
\* assignment to fraction sets it to the assigned value clamped to [0, 1]
\* (to 1 when there is no duration), which may be lower than it was.
C12_MonotoneButAssigned ==
    [][/\ fraction(transitions[Probe]) \in 0 .. Unit
       /\ fraction(transitions'[Probe]) \in 0 .. Unit
       /\ ~Returned("fraction")
          => fraction(transitions'[Probe]) >= fraction(transitions[Probe])
       /\ Returned("fraction") /\ ~hist'.threw
          => fraction(transitions'[Probe]) =
                IF transitions[Probe].duration = 0 THEN Unit
                ELSE Min(Max(0, hist'.probe.arg), Unit)]_vars

\* An update has raised the fraction of the running Transition, and an
\* assignment has lowered it since.
C12_Witness ==
    /\ hist.probe.last = "fraction"
    /\ hist.probe.arg = 0
    /\ isRunning(transitions[Probe])
    /\ transitions[Probe].lastUpdateTime = 500
    /\ fraction(transitions[Probe]) = 0

\* C13: cancel(snapToEnd = true) on a running Transition sets currentValue
\* to the end value, marks it ended and calls the update callbacks once and
\* then the end callbacks once; cancel on a Transition that has ended
\* changes nothing and calls no callback.
C13_Cancel ==
    [][/\ (Returned("cancel") /\ hist'.probe.arg = 1 /\ isRunning(transitions[Probe]))
          => (/\ transitions'[Probe].currentValue = transitions[Probe].endValue
              /\ transitions'[Probe].isEnded
              /\ hist'.probe.log = <<"update", "end">>)
       /\ (Returned("cancel") /\ transitions[Probe].isEnded)
          => (/\ transitions' = transitions
              /\ hist'.probe.log = <<>>
              /\ hist'.probe.fired = hist.probe.fired
              /\ ~hist'.threw)]_vars

\* A Transition canceled half way.
C13_Witness ==
    /\ hist.probe.last = "cancel"
    /\ hist.probe.arg = 1
    /\ hist.probe.log = <<"update", "end">>
    /\ fraction(transitions[Probe]) = 500
    /\ transitions[Probe].isEnded
    /\ transitions[Probe].currentValue = transitions[Probe].endValue

\* pause() or resume() has been called on a Transition that had ended.
PausedEnded ==
    /\ Returned("pause") \/ Returned("resume")
    /\ transitions[Probe].isEnded

\* The original reading of C14: such a call raises no error.
C14_NoError ==
    [][PausedEnded => ~hist'.threw]_vars

\* C14: pause() and resume() called on a Transition that has ended raise an
\* error; they call no callback and change no flag or value.
C14_ThrowsUnchanged ==
    [][PausedEnded
       => (/\ hist'.threw
           /\ transitions' = transitions
           /\ hist'.probe.log = <<>>
           /\ hist'.probe.fired = hist.probe.fired)]_vars

C14_Witness ==
    /\ hist.probe.last \in {"pause", "resume"}
    /\ hist.threw
    /\ transitions[Probe].isEnded
    /\ ~transitions[Probe].isPaused

\* The calls of a callback set made by the step.
FiredNow(name) == hist'.probe.fired[name] - hist.probe.fired[name]

Once(entered) == IF entered THEN 1 ELSE 0

\* C15: each lifecycle callback set is called once per state entry: the
\* start callbacks when isStarted becomes true, the pause and the resume
\* callbacks when isPaused changes, the end callbacks when isEnded becomes
\* true, and at no other time.
C15_OncePerEntry ==
    [][/\ FiredNow("start") =
             Once(~transitions[Probe].isStarted /\ transitions'[Probe].isStarted)
       /\ FiredNow("pause") =
             Once(~transitions[Probe].isPaused /\ transitions'[Probe].isPaused)
       /\ FiredNow("resume") =
             Once(transitions[Probe].isPaused /\ ~transitions'[Probe].isPaused)
       /\ FiredNow("end") =
             Once(~transitions[Probe].isEnded /\ transitions'[Probe].isEnded)
       /\ hist'.probe.fired["start"] <= 1
       /\ hist'.probe.fired["end"] <= 1]_vars

\* The same, for callbacks that do not call the Transition back.
C15_OncePerEntryPlain ==
    [][hist.probe.onStart = "none" => C15_OncePerEntry!1]_vars

\* C16: asPromise() makes one promise and returns it on every call; the
\* promise is resolved if and only if the Transition has ended, and it is
\* resolved once: by asPromise() itself when the Transition had ended, by
\* the call that ends the Transition otherwise.
C16_OnePromise ==
    /\ hist.probe.made <= 1
    /\ hist.probe.resolved <= 1
    /\ (hist.probe.promise = "none") <=> (hist.probe.made = 0)
    /\ (hist.probe.promise = "resolved") <=> (hist.probe.resolved = 1)
    /\ hist.probe.promise # "none"
       => ((hist.probe.promise = "resolved") <=> transitions[Probe].isEnded)

\* A promise asked for before the end and resolved by a later cancel.
C16_Witness ==
    /\ hist.probe.promise = "resolved"
    /\ hist.probe.made = 1
    /\ hist.probe.last = "cancel"
    /\ hist.probe.calls >= 4
    /\ Fired(hist.probe.log, "end")
    /\ transitions[Probe].isEnded

\* C17: the flags of a Transition move along unstarted -> started ->
\* {paused <-> started} -> ended: isPaused implies isStarted, isEnded implies
\* isStarted, and once isEnded is true no call changes a flag.
C17_Flags ==
    [][/\ transitions'[Probe].isPaused => transitions'[Probe].isStarted
       /\ transitions'[Probe].isEnded => transitions'[Probe].isStarted
       /\ transitions[Probe].isEnded
          => (/\ transitions'[Probe].isStarted = transitions[Probe].isStarted
              /\ transitions'[Probe].isPaused = transitions[Probe].isPaused
              /\ transitions'[Probe].isEnded)]_vars

\* Its parts: a paused Transition has been started,
C17_PausedIsStarted ==
    transitions[Probe].isPaused => transitions[Probe].isStarted

\* an ended Transition has been started,
C17_EndedIsStarted ==
    transitions[Probe].isEnded => transitions[Probe].isStarted

\* and ended is terminal.
C17_Terminal ==
    [][transitions[Probe].isEnded
       => (/\ transitions'[Probe].isStarted = transitions[Probe].isStarted
           /\ transitions'[Probe].isPaused = transitions[Probe].isPaused
           /\ transitions'[Probe].isEnded)]_vars

(***************************************************************************)
(* The Clocks on their own.                                                *)
(***************************************************************************)
Registered(q) == {q[i].callback.version : i \in 1 .. Len(q)}

OnePerId(q) == \A i, j \in 1 .. Len(q) : q[i].id = q[j].id => i = j

\* C18: in both clocks at most one frame callback and at most one timeout
\* is registered per id; a registration under an id replaces the earlier
\* one, and a callback replaced or removed is not called afterwards; a
\* timeout callback is called at most once, and not before its delay has
\* passed since it was registered.
C18_OnePerId ==
    /\ OnePerId(frameCallbacks)
    /\ OnePerId(timeoutCallbacks)
    /\ Registered(frameCallbacks) \cap hist.ticks.dead = {}
    /\ Registered(timeoutCallbacks) \cap hist.ticks.dead = {}
    /\ Registered(timeoutCallbacks) \cap hist.ticks.ran = {}
    /\ {timer.callback.version : timer \in clock.timers} \subseteq Registered(timeoutCallbacks)
    /\ ~hist.ticks.stale
    /\ ~hist.ticks.twice
    /\ ~hist.ticks.early

\* In the DOMClock a timeout was replaced under its id, the time of both
\* has passed, and the later one has been called.
C18_Witness ==
    /\ clock.kind = "dom"
    /\ \E v \in hist.ticks.ran : \E w \in hist.ticks.dead : w < v
    /\ hist.ticks.dead \cap hist.ticks.ran = {}
    /\ frame >= 1

\* A tick has just run: FrameClock.nextFrame, or the frame of the DOMClock.
Ticked ==
    /\ clock'.calls = clock.calls + 1
    /\ clock'.last = "nextFrame"

\* The frame callbacks the tick has called, and those registered as it began.
TickCalled == {hist'.ticks.tick[i] : i \in 1 .. Len(hist'.ticks.tick)}

TickBegun == Registered(hist'.ticks.begun)

\* The original reading of C19: a tick calls exactly the callbacks that
\* were registered as it began, whatever they remove or register.
C19_CopyBeforeIterate ==
    [][Ticked
       => hist'.ticks.tick =
             [i \in 1 .. Len(hist'.ticks.begun) |-> hist'.ticks.begun[i].callback.version]]_vars

\* C19: a tick walks the map of frame callbacks as it is when each turn
\* comes.  It calls no callback twice and none that has been removed or
\* replaced; of the callbacks registered as the tick began it calls those
\* still registered at their turn; a callback registered during the tick
\* under an id that was not in the map is called in the same tick.
C19_LiveIteration ==
    [][Ticked
       => (/\ \A i, j \in 1 .. Len(hist'.ticks.tick) :
                 hist'.ticks.tick[i] = hist'.ticks.tick[j] => i = j
           /\ ~hist'.ticks.stale
           /\ TickBegun \ TickCalled \subseteq hist'.ticks.dead
           /\ TickCalled \ TickBegun \subseteq {v \in 1 .. clock'.next : v >= clock.next}
           /\ \A i \in 1 .. Len(frameCallbacks') :
                 (/\ frameCallbacks'[i].callback.version >= clock.next
                  /\ frameCallbacks'[i].serial = frameCallbacks'[i].callback.version)
                 => frameCallbacks'[i].callback.version \in TickCalled)]_vars

\* A tick that began with one callback and called two: the one registered
\* by the first was called in the same tick.
C19_Witness ==
    /\ clock.last = "nextFrame"
    /\ Len(hist.ticks.begun) = 1
    /\ Len(hist.ticks.tick) = 2
    /\ Len(frameCallbacks) = 2

(***************************************************************************)
(* The default position of the figures.                                    *)
(***************************************************************************)
FigureObject(i) == elements[Slot("figure", i)].object

\* Both figures are shown, each placed as one of two.
TwoFigures ==
    \A i \in {1, 2} :
        /\ ElementExists(State, Slot("figure", i))
        /\ FigureObject(i) # NoId
        /\ objects[FigureObject(i)].state = "created"
        /\ objects[FigureObject(i)].attached
        /\ elements[Slot("figure", i)].options.figureCount = 2

\* The Transitions of a property of an Object that have not ended.
Moving(o, propertyName) ==
    {k \in TransIds : /\ transitions[k].state = "live"
                      /\ ~transitions[k].isEnded
                      /\ transitions[k].owner.kind = "element"
                      /\ transitions[k].owner.object = o
                      /\ transitions[k].owner.propertyName = propertyName}

\* C20: when exactly the two figures figure1 and figure2 are visible and
\* declare no position, their Objects fade in over the default duration 500
\* and stand at screenWidth * 1/3 (figure1) and screenWidth * 2/3 (figure2).
C20_Thirds ==
    TwoFigures
    => \A i \in {1, 2} :
          /\ \A k \in Moving(FigureObject(i), "value") : transitions[k].duration = 500
          /\ Moving(FigureObject(i), "positionX") = {}
             => objects[FigureObject(i)].props.positionX = (i * ScreenWidth) \div 3

\* What the code does: the figures stand at 0 and at screenWidth * 1/3.
C20_FromZero ==
    TwoFigures
    => \A i \in {1, 2} :
          /\ \A k \in Moving(FigureObject(i), "value") : transitions[k].duration = 500
          /\ Moving(FigureObject(i), "positionX") = {}
             => objects[FigureObject(i)].props.positionX = ((i - 1) * ScreenWidth) \div 3

(***************************************************************************)
(* An update that empties one of two visible figures.                      *)
(***************************************************************************)
\* A wait update begins in this step and commits: figure1, shown until now
\* next to figure2, has been given the empty value, and the value of figure2
\* is the one it had.
EmptiesFigure1 ==
    /\ TwoFigures
    /\ hist'.cycle # hist.cycle
    /\ options'.type = "wait"
    /\ pc' = "waitWait"
    /\ elements'[Slot("figure", 1)].object = NoId
    /\ FigureObject(2)' = FigureObject(2)
    /\ elements'[Slot("figure", 2)].properties.value
           = elements[Slot("figure", 2)].properties.value

\* The fade of figure1: its Object has an unended value Transition to 0 of
\* duration 500, and is neither detached nor destroyed yet.
Figure1Fades ==
    /\ objects'[FigureObject(1)].attached
    /\ objects'[FigureObject(1)].destroyCount = 0
    /\ \E k \in TransIds :
        /\ Unended(transitions'[k])
        /\ transitions'[k].owner.kind = "element"
        /\ transitions'[k].owner.object = FigureObject(1)
        /\ transitions'[k].owner.propertyName = "value"
        /\ transitions'[k].endValue = 0
        /\ transitions'[k].duration = 500
        /\ Contains(frameCallbacks', k)

\* The unended Transitions of an Object, before and after the step.
MovingOf(o) == Moving(o, "value") \cup Moving(o, "positionX")

\* C21: an update that gives only figure1 the empty value, with figure1 and
\* figure2 both visible, starts figure1's fade to 0 of duration 500 and
\* leaves figure2 untouched: no Transition of figure2's Object is started or
\* canceled and none of its properties changes.
C21_Figure2Untouched ==
    [][EmptiesFigure1 =>
          /\ Figure1Fades
          /\ MovingOf(FigureObject(2))' = MovingOf(FigureObject(2))
          /\ objects'[FigureObject(2)].props = objects[FigureObject(2)].props]_vars

\* What the code does: figure1 fades, the value of figure2 is left alone,
\* and figure2, now the only figure, is moved to its new default position 0
\* by a positionX Transition of duration 500.
C21_Figure2Moved ==
    [][EmptiesFigure1 =>
          /\ Figure1Fades
          /\ Moving(FigureObject(2), "value")' = Moving(FigureObject(2), "value")
          /\ objects'[FigureObject(2)].props.value = objects[FigureObject(2)].props.value
          /\ \E k \in Moving(FigureObject(2), "positionX")' :
                /\ k \notin Moving(FigureObject(2), "positionX")
                /\ transitions'[k].endValue = 0
                /\ transitions'[k].duration = 500]_vars

(***************************************************************************)
(* The lifetime of an Element in the map of the View.                      *)
(***************************************************************************)
InMap(slot) == elements[slot].state = "present"

\* The fade to 0 of the Object o of an emptied slot ends in this step: the
\* end callback destroys the Object.
FadeOutEnds(o) ==
    /\ objects[o].state = "created"
    /\ objects[o].emptied
    /\ objects[o].destroyCount = 0
    /\ objects'[o].state = "free" \/ objects'[o].destroyCount = 1
    /\ ~viewDestroyed'

\* C22: an Element is in the map of the View only from the first cycle in
\* which its slot has a non-empty value until the value Transition of its
\* Object reaches 0: a step that creates it is an update in which the slot
\* has a value, and the step in which the fade to 0 of its Object ends
\* leaves no Element without an Object in the map.
C22_RemovedAtZero ==
    [][\A slot \in Slots :
          /\ ~InMap(slot) /\ InMap(slot)'
             => \E i \in 1 .. Len(snapshot') :
                   /\ NameOf(snapshot'[i]) = slot
                   /\ resolveElementValue(snapshot'[i]) # Undefined
          /\ \A o \in ObjIds :
                FadeOutEnds(o) /\ objects[o].slot = slot
                => ~(InMap(slot)' /\ elements'[slot].object = NoId)]_vars

\* What the code does: an Element is created in an update in which its slot
\* has a value, it stays in the map when the fade to 0 of its Object ends,
\* and it leaves the map only in a set_layout update that tears down the
\* Elements of its kind.
C22_KeptAfterFade ==
    [][\A slot \in Slots :
          /\ ~InMap(slot) /\ InMap(slot)'
             => \E i \in 1 .. Len(snapshot') :
                   /\ NameOf(snapshot'[i]) = slot
                   /\ resolveElementValue(snapshot'[i]) # Undefined
          /\ \A o \in ObjIds :
                FadeOutEnds(o) /\ objects[o].slot = slot /\ slot \notin hist'.orphaned
                => InMap(slot)'
          /\ InMap(slot) /\ ~InMap(slot)'
             => options'.type = "set_layout" /\ slot \in hist'.orphaned]_vars

(***************************************************************************)
(* View.destroy.                                                           *)
(***************************************************************************)
\* View.destroy runs in this step.
Destroys == ~viewDestroyed /\ viewDestroyed'

\* The Objects the Elements hold when View.destroy is called: the current
\* Object of an Element and the outgoing Objects still in the document.
HeldObjects ==
    {o \in ObjIds : /\ objects[o].state = "created"
                    /\ \/ objects[o].attached
                       \/ \E slot \in Slots : InMap(slot) /\ elements[slot].object = o}

Released(o) ==
    \/ objects'[o].state = "free"
    \/ ~objects'[o].attached /\ objects'[o].destroyCount >= 1

\* C23: after View.destroy, called in any state, every current and outgoing
\* Object of every Element is detached and destroyed, and no Transition of
\* the Elements or of the Layout is unended or registered with the Clock.
C23_AllReleased ==
    [][Destroys =>
          /\ \A o \in HeldObjects : Released(o)
          /\ \A i \in TransIds : ~Unended(transitions'[i])
          /\ frameCallbacks' = <<>>]_vars

\* What the code does: the Objects are released and the Transitions of the
\* Elements are ended and unregistered; the Transitions of the Layout are
\* left as they are.
C23_ElementsReleased ==
    [][Destroys =>
          /\ \A o \in HeldObjects : Released(o)
          /\ \A i \in TransIds :
                Unended(transitions'[i]) \/ Contains(frameCallbacks', i)
                => /\ transitions'[i].owner.kind = "layout"
                   /\ Unended(transitions[i])
                   /\ transitions'[i] = transitions[i]
          /\ frameCallbacks' = SelectSeq(frameCallbacks, LAMBDA i : i \in SeqToSet(layoutTransitions))
          /\ layoutTransitions' = layoutTransitions]_vars

(***************************************************************************)
(* The rules an ElementPropertyMatcher applies to an element name.         *)
(***************************************************************************)
\* The rule applies to the name the caller asked for, as the claim has it:
\* its pattern matches the whole name, or the index is 1 and the pattern
\* matches the name without the index.
Applies(rule) ==
    \/ minimatch(rule[1], hist.match.elementName)
    \/ /\ hist.match.index = 1
       /\ minimatch(rule[1], hist.match.type)

AppliedRules == SelectSeq(hist.match.matchers, Applies)

\* C24: getPropertyMatcher(name) applies the property matcher of a rule when
\* the rule's pattern matches the whole name or, only for a name whose index
\* is exactly 1, when it matches the name with that 1 removed; for every
\* other index only a match on the whole name counts.  The Matcher it
\* returns matches a property name iff some applied rule's property matcher
\* matches it.
C24_TrailingOne ==
    hist.match.calls > 0 =>
        /\ hist.match.propertyMatchers
               = [i \in 1 .. Len(AppliedRules) |-> AppliedRules[i][2]]
        /\ hist.match.asked # <<>> =>
               hist.match.answer
                   = \E i \in 1 .. Len(AppliedRules) :
                         minimatch(AppliedRules[i][2], hist.match.asked)

\* figure1 was asked for with a rule for "figure", which was applied and
\* whose property matcher answered.
C24_Witness ==
    /\ hist.match.elementName = Figure \o <<"1">>
    /\ hist.match.matchers = <<<<Figure, <<"v", "a", "l", "u", "e">>>>>>
    /\ Len(hist.match.propertyMatchers) = 1
    /\ hist.match.asked = <<"v", "a", "l", "u", "e">>
    /\ hist.match.answer

\* C25: cancel() on a Transition that is not running (not started, paused
\* or ended) does nothing, whatever snapToEnd is: no flag and no value
\* changes, no callback is called, no error is raised and the promise is
\* not resolved; a paused Transition stays paused and unended.
C25_CancelNotRunning ==
    [][Returned("cancel") /\ ~isRunning(transitions[Probe])
       => /\ transitions' = transitions
          /\ hist'.probe.log = <<>>
          /\ hist'.probe.fired = hist.probe.fired
          /\ hist'.probe.promise = hist.probe.promise
          /\ hist'.probe.resolved = hist.probe.resolved
          /\ ~hist'.threw]_vars

\* cancel(false) has returned on a paused Transition whose promise is
\* awaited: it is still paused, unended and unresolved.
C25_Witness ==
    /\ hist.probe.last = "cancel"
    /\ hist.probe.arg = 0
    /\ hist.probe.log = <<>>
    /\ transitions[Probe].isStarted
    /\ transitions[Probe].isPaused
    /\ ~transitions[Probe].isEnded
    /\ hist.probe.promise = "pending"

(***************************************************************************)
(* The running time of a Transition that is paused and resumed.            *)
(***************************************************************************)
\* The original reading of C26: the running time holds no time that passed
\* while the Transition was not running (before start, or between pause and
\* resume), whether or not update was called in the meantime.
C26_OnlyRunningTime ==
    transitions[Probe].runningTime <= hist.probe.active

\* C26: update(time) on a Transition that is not running records the time
\* and adds nothing; on a running Transition it adds the time since the
\* update before it, whenever that was (nothing at the first update); no
\* other call and no passing of time changes the running time, so that
\* resume continues from the fraction held at pause.
C26_SinceLastUpdate ==
    [][/\ Returned("update") /\ ~isRunning(transitions[Probe])
          => /\ transitions'[Probe].runningTime = transitions[Probe].runningTime
             /\ transitions'[Probe].lastUpdateTime = frame' * FrameTime
       /\ Returned("update") /\ isRunning(transitions[Probe])
          => /\ transitions'[Probe].runningTime =
                    IF transitions[Probe].lastUpdateTime = NaN
                    THEN transitions[Probe].runningTime
                    ELSE transitions[Probe].runningTime
                             + (frame' * FrameTime - transitions[Probe].lastUpdateTime)
             /\ transitions'[Probe].lastUpdateTime = frame' * FrameTime
       /\ ~Returned("update")
          => /\ transitions'[Probe].runningTime = transitions[Probe].runningTime
             /\ fraction(transitions'[Probe]) = fraction(transitions[Probe])]_vars

\* A Transition updated, paused for a frame in which update was not called,
\* resumed and updated: the frame of the pause is in its running time.
C26_Witness ==
    /\ hist.probe.last = "update"
    /\ hist.probe.fired["pause"] = 1
    /\ hist.probe.fired["resume"] = 1
    /\ isRunning(transitions[Probe])
    /\ transitions[Probe].runningTime = 500
    /\ hist.probe.active = 250

(***************************************************************************)
(* The replacement of the Object of an Element.                            *)
(***************************************************************************)
\* The commit of this step gives the Element of the slot a new Object in
\* the place of the Object it had.
Replaces(slot) ==
    /\ InMap(slot) /\ elements[slot].object # NoId
    /\ InMap(slot)' /\ elements'[slot].object \notin {NoId, elements[slot].object}

\* The kinds shown by an ImageElement, and those shown by a ChoiceElement.
ImageKinds == {"figure"}
TextKinds == {"choice"}

\* The Transitions that the step starts on an Object.
StartedOn(o) ==
    {i \in TransIds : /\ transitions[i].state = "free"
                      /\ transitions'[i].state = "live"
                      /\ transitions'[i].owner.kind = "element"
                      /\ transitions'[i].owner.object = o}

\* The value of the incoming Object waits while the fade of the outgoing
\* Object of its Element has time left.
IncomingWaits ==
    \A i, j \in TransIds :
        /\ Unended(transitions[i]) /\ Unended(transitions[j])
        /\ transitions[i].owner.kind = "element" /\ transitions[j].owner.kind = "element"
        /\ transitions[i].owner.slot = transitions[j].owner.slot
        /\ transitions[i].owner.slot.type \in TextKinds
        /\ transitions[i].owner.propertyName = "value"
        /\ transitions[j].owner.propertyName = "value"
        /\ transitions[i].endValue = Unit /\ transitions[j].endValue = 0
        /\ transitions[i].owner.object # transitions[j].owner.object
        => /\ transitions[i].runningTime = transitions[j].runningTime
           /\ transitions[i].delay = transitions[j].duration
           /\ objects[transitions[i].owner.object].props.value = 0

\* C27: when a commit replaces the Object of an Element, the Transitions it
\* starts on the outgoing Object have delay 0; those it starts on the
\* incoming Object have delay 0 for a cross-fading kind (figure) and the
\* duration of the outgoing Object's Transitions otherwise (choice), so
\* that the value of the incoming Object does not change before the fade
\* of the outgoing Object has had its duration.
C27_DelayedUnlessCrossFade ==
    /\ [][\A slot \in Slots :
              Replaces(slot) =>
                  /\ \A j \in StartedOn(elements[slot].object) : transitions'[j].delay = 0
                  /\ \A i \in StartedOn(elements'[slot].object) :
                        IF slot.type \in ImageKinds THEN transitions'[i].delay = 0
                        ELSE /\ StartedOn(elements[slot].object) # {}
                             /\ \A j \in StartedOn(elements[slot].object) :
                                   transitions'[i].delay = transitions'[j].duration]_vars
    /\ []IncomingWaits

\* The text of the choice has been replaced a frame ago: the old text is
\* half faded and the new one still waits at 0.
C27_Witness ==
    \E i, j \in TransIds :
        /\ Unended(transitions[i]) /\ Unended(transitions[j])
        /\ transitions[i].owner.kind = "element" /\ transitions[j].owner.kind = "element"
        /\ transitions[i].owner.slot = Slot("choice", 1)
        /\ transitions[j].owner.slot = Slot("choice", 1)
        /\ transitions[i].owner.object = elements[Slot("choice", 1)].object
        /\ transitions[j].owner.object # transitions[i].owner.object
        /\ transitions[i].delay = 500
        /\ transitions[j].runningTime = 250
        /\ objects[transitions[j].owner.object].props.value = 500
        /\ objects[transitions[i].owner.object].props.value = 0

(***************************************************************************)
(* The Object of an Element after a commit.                                *)
(***************************************************************************)
\* The step runs the second half of the transition of the k-th Element of
\* the update: in the step that begins the update, or in the step that
\* completes its last load.
Commits(k) ==
    /\ k \in 1 .. Len(gens') /\ gens'[k].done
    /\ \/ hist.cycle # hist'.cycle
       \/ pc = "loading" /\ k \in 1 .. Len(gens) /\ ~gens[k].done

\* The Object the Element of a slot had before the step.
ObjectBefore(slot) == IF InMap(slot) THEN elements[slot].object ELSE NoId

\* The display value the Element of a slot had before the step.
ValueBefore(slot) ==
    IF InMap(slot) THEN resolveElementValue(elements[slot].properties) ELSE Undefined

\* The Objects constructed for the k-th Element of the update that the
\* step commits.
Constructed(k) ==
    {o \in ObjIds :
        /\ objects'[o].state # "free" /\ objects'[o].slot = gens'[k].slot
        /\ IF hist.cycle # hist'.cycle THEN objects[o].state = "free"
           ELSE gens[k].newObject = o}

\* C28: after the commit of an Element it holds the Object constructed for
\* the update if there is one, otherwise the Object it had if the new value
\* is present, and none if the new value is absent; an Object is
\* constructed exactly if the new value is present and differs from the
\* old one; with both values absent the Element is left as it was.
C28_ObjectAfterCommit ==
    [][\A k \in 1 .. Len(gens') :
          Commits(k) =>
              LET slot == gens'[k].slot
                  newValue == resolveElementValue(gens'[k].newProperties)
                  oldValue == ValueBefore(slot)
              IN  /\ Constructed(k) # {} <=> (newValue # Undefined /\ newValue # oldValue)
                  /\ Cardinality(Constructed(k)) <= 1
                  /\ IF newValue = Undefined /\ oldValue = Undefined
                     THEN /\ InMap(slot) => elements'[slot] = elements[slot]
                          /\ StartedOn(ObjectBefore(slot)) = {}
                     ELSE /\ elements'[slot].state = "present"
                          /\ elements'[slot].object =
                                IF Constructed(k) # {} THEN CHOOSE o \in Constructed(k) : TRUE
                                ELSE IF newValue # Undefined THEN ObjectBefore(slot)
                                ELSE NoId]_vars

\* The first figure holds the Object constructed for its new image while
\* the Object of the old image, which it held before, fades out.
C28_Witness ==
    \E o, p \in ObjIds :
        /\ InMap(Slot("figure", 1)) /\ elements[Slot("figure", 1)].object = o
        /\ o # p
        /\ objects[o].state = "created" /\ objects[p].state = "created"
        /\ objects[o].slot = Slot("figure", 1) /\ objects[p].slot = Slot("figure", 1)
        /\ objects[o].content = "b.png" /\ objects[p].content = "a.png"
        /\ objects[p].props.value < Unit /\ objects[p].props.value > 0

(***************************************************************************)
(* The end of the fade to 0 of an Object.                                  *)
(***************************************************************************)
\* The Transition i of an Element takes the value of its Object to 0.
FadesToZero(i) ==
    /\ Unended(transitions[i])
    /\ transitions[i].owner.kind = "element"
    /\ transitions[i].owner.propertyName = "value"
    /\ transitions[i].endValue = 0

\* The Transition i is over after the step.
EndsNow(i) ==
    Unended(transitions[i]) /\ ~(Unended(transitions[i])' /\ transitions'[i] .owner = transitions[i].owner)

\* The unended Transitions of an Object other than i.
OthersOf(o, i) ==
    {j \in TransIds \ {i} : /\ Unended(transitions[j])
                            /\ transitions[j].owner.kind = "element"
                            /\ transitions[j].owner.object = o}

\* After the step the Transition j is neither tracked by an Element nor
\* registered with the Clock.
Dropped(j) ==
    /\ ~Contains(frameCallbacks', j)
    /\ \A slot \in Slots :
           elements'[slot].state = "present" => ~Contains(elements'[slot].tracked, j)

\* After the step the Object o is detached and destroyed.
TornDown(o) ==
    \/ objects'[o].state = "free"
    \/ /\ ~objects'[o].attached
       /\ objects'[o].destroyCount >= 1
       /\ objects'[o].detachCount >= 1

\* No unended Transition of an Element works on an Object that a fade to
\* 0 has destroyed.
NoneOnDestroyed ==
    ~viewDestroyed =>
        \A j \in TransIds :
            Unended(transitions[j]) /\ transitions[j].owner.kind = "element" =>
                /\ objects[transitions[j].owner.object].state # "free"
                /\ objects[transitions[j].owner.object].destroyCount = 0
                /\ IsTracked(j) /\ IsRegistered(j)

\* C29: the step in which the fade to 0 of an Object ends, by a frame, a
\* snap or the cancel of a later update, also ends every other Transition
\* of that Object, leaves none of them tracked or registered, and detaches
\* and destroys the Object; no unended Transition is left on an Object
\* that was destroyed.
C29_FadeEndSweeps ==
    /\ [][\A i \in TransIds :
              FadesToZero(i) /\ EndsNow(i) =>
                  /\ Dropped(i)
                  /\ \A j \in OthersOf(transitions[i].owner.object, i) :
                        EndsNow(j) /\ Dropped(j)
                  /\ TornDown(transitions[i].owner.object)
                  /\ \A j \in TransIds :
                        ~(/\ Unended(transitions[j])'
                          /\ transitions'[j].owner.kind = "element"
                          /\ transitions'[j].owner.object = transitions[i].owner.object)]_vars
    /\ []NoneOnDestroyed

\* The image of the first figure is being replaced while the figure
\* moves: the Object of the old image fades to 0 and moves at once.
C29_Witness ==
    \E i, j \in TransIds :
        /\ FadesToZero(i)
        /\ j \in OthersOf(transitions[i].owner.object, i)
        /\ transitions[j].owner.propertyName = "positionX"
        /\ transitions[i].runningTime > 0

(***************************************************************************)
(* The Elements a switch of the layout removes.                            *)
(***************************************************************************)
\* The step runs the part of a set_layout update that removes Elements:
\* after the wait for the exit fades, or at once when there is none.
Switches ==
    /\ pc' \notin {"loading", "layoutWait1", "rejected"}
    /\ \/ pc = "layoutWait1"
       \/ pc = "loading" /\ options.type = "set_layout"
       \/ hist.cycle # hist'.cycle /\ options'.type = "set_layout"

\* The layout that was active before the update: during the wait for the
\* exit fades it is the one the fading nodes belong to.
OldLayout ==
    IF pc = "layoutWait1"
    THEN CHOOSE l \in layoutNames :
             \E i \in awaited : /\ transitions[i].owner.kind = "layout"
                                /\ l \in elementLayouts[transitions[i].owner.node]
    ELSE layoutName

\* The kind has a container in the old layout that is not its container in
\* the new one.
ExitKind(type) ==
    /\ getContainerElement(OldLayout, type) # Undefined
    /\ getContainerElement(OldLayout, type) # getContainerElement(layoutName', type)

\* After the step the Transition i goes on as before: with no frame in the
\* step it is what it was, with a frame it has run on or has reached its
\* end.
GoesOn(i) ==
    IF frame' = frame
    THEN /\ transitions'[i] = transitions[i]
         /\ Contains(frameCallbacks', i)
    ELSE \/ /\ Unended(transitions[i])' /\ transitions'[i].owner = transitions[i].owner
            /\ Contains(frameCallbacks', i)
         \/ transitions[i].runningTime + FrameTime >= transitions[i].delay + transitions[i].duration

\* C30: a set_layout update to a known layout destroys and removes, from
\* the map of the View and from the snapshot, the Elements of the kinds
\* whose container in the old layout is not their container in the new
\* one, and no other: an Element of another kind stays in the map with its
\* Object, which is not destroyed, and with its running Transitions.
C30_ExitKindsOnly ==
    [][Switches =>
          \A slot \in Slots :
              IF ExitKind(slot.type)
              THEN /\ elements'[slot].state = "absent"
                   /\ InMap(slot) =>
                         /\ \A k \in 1 .. Len(snapshot') : NameOf(snapshot'[k]) # slot
                         /\ elements[slot].object # NoId => TornDown(elements[slot].object)
                         /\ \A i \in SeqToSet(elements[slot].tracked) :
                               EndsNow(i) /\ ~Contains(frameCallbacks', i)
              ELSE InMap(slot) =>
                      /\ elements'[slot].state = "present"
                      /\ pc = "layoutWait1" =>
                            /\ elements'[slot].object = elements[slot].object
                            /\ elements[slot].object # NoId =>
                                  /\ objects'[elements[slot].object].state = "created"
                                  /\ objects'[elements[slot].object].attached
                                  /\ objects'[elements[slot].object].destroyCount = 0
                            /\ \A i \in SeqToSet(elements[slot].tracked) : GoesOn(i)]_vars

\* After a switch from layout A to layout B that was skipped the figures
\* are gone and the choice is in the map with its Object still fading in.
C30_Witness ==
    /\ layoutName = "B" /\ options.type = "set_layout" /\ hist.skipped
    /\ pc # "layoutWait1"
    /\ hist.orphaned # {}
    /\ \A slot \in Slots : slot.type = "figure" => ~InMap(slot)
    /\ \E slot \in Slots :
          /\ slot.type = "choice" /\ InMap(slot) /\ elements[slot].object # NoId
          /\ objects[elements[slot].object].attached
          /\ \E i \in SeqToSet(elements[slot].tracked) :
                Unended(transitions[i]) /\ transitions[i].runningTime > 0

(***************************************************************************)
(* The entrance of a text by grapheme cluster.                             *)
(***************************************************************************)
\* The TextObject enters by cluster and is between value 0 and value 1.
Entering == hist.text.enterByGraphemeCluster /\ hist.text.isEnter

\* The spans that are neither invisible nor fully visible.
PartlyFaded == {k \in 1 .. Len(hist.text.spans) :
                   0 < hist.text.spans[k] /\ hist.text.spans[k] < FullOpacity}

\* C31: for a text of n clusters that enters by cluster the transition
\* element count is n + 5 - 1; at value 0 every cluster is invisible and at
\* value 1 every cluster is fully visible; while the text enters no
\* cluster is less opaque than the one after it, at most 5 clusters are
\* partly faded, and the k-th cluster is fully visible exactly from the
\* value k + 4 parts of the count on; a greater value lowers the opacity of
\* no cluster.
C31_LeftToRight ==
    /\ [](hist.text.enterByGraphemeCluster =>
            LET n == Len(hist.text.spans)
                spans == hist.text.spans
            IN  /\ hist.text.count \in {Unset, n + 5 - 1}
                /\ ~hist.text.threw
                /\ hist.text.value = 0 => \A k \in 1 .. n : spans[k] = 0
                /\ hist.text.value = Unit => \A k \in 1 .. n : spans[k] = FullOpacity
                /\ Entering =>
                      /\ \A k \in 1 .. n - 1 : spans[k] >= spans[k + 1]
                      /\ Cardinality(PartlyFaded) <= 5
                      /\ \A k \in 1 .. n :
                            spans[k] = FullOpacity
                                <=> hist.text.value * (n + 5 - 1) >= (k + 4) * Unit)
    /\ [][Entering /\ hist'.text.value >= hist.text.value =>
              \A k \in 1 .. Len(hist.text.spans) :
                  hist'.text.spans[k] >= hist.text.spans[k]]_vars

\* A text of 10 clusters, whose count has been read as 14, at value 0.45:
\* the first two clusters are fully visible, five are partly faded and the last
\* is still invisible.
C31_Witness ==
    /\ Entering
    /\ Len(hist.text.spans) = 10 /\ hist.text.count = 14
    /\ hist.text.value = 450
    /\ hist.text.spans[2] = FullOpacity /\ hist.text.spans[3] < FullOpacity
    /\ Cardinality(PartlyFaded) = 5
    /\ hist.text.spans[10] = 0

(***************************************************************************)
(* The status after an update.                                             *)
(***************************************************************************)
\* The update has resolved and the script has the turn again.
Resolved == pc = "idle" /\ hist.result = "resolved"

\* C32: whenever the update has resolved the status of the View is ready,
\* also after a wait, a delay or a set_layout that nobody skipped.
C32_ReadyWhenResolved == Resolved => status.type = "ready"

\* After an update that has resolved the status is ready or the waiting
\* status of a wait that was not skipped, whose skip closure is left over.
C32_ReadyUnlessWaited ==
    Resolved /\ status.type # "ready" =>
        /\ status.type = "waiting" /\ ~status.current
        /\ ~hist.skipped
        /\ options.type \in {"wait", "delay", "set_layout"}

(***************************************************************************)
(* The status after a load that failed.                                    *)
(***************************************************************************)
\* C33: once the update has rejected because the construction of an Object
\* failed, the status of the View is not loading.
C33_NotLoadingAfterReject == hist.result = "rejected" => status.type # "loading"

\* While the update is loading, and after it has rejected for a failed
\* load, the status is loading; the next update that loads replaces it.
C33_LoadingUntilNextUpdate ==
    /\ pc = "loading" => status.type = "loading"
    /\ pc = "rejected" /\ options.type # "set_layout" => status.type = "loading"

(***************************************************************************)
(* The status while a choice is pending.                                   *)
(***************************************************************************)
\* C34: while the pause update that waits for a choice is pending the
\* status of the View is choice.
C34_ChoiceWhilePending == pc = "choice" => status.type = "choice"

\* Once the status of a pending choice is no longer choice every selection
\* is ignored: the update stays pending.
C34_ThenNeverResolves ==
    [][pc = "choice" /\ status.type # "choice" => pc' = "choice" /\ status'.type # "choice"]_vars

(***************************************************************************)
(* A skip closure called after its wait is over.                           *)
(***************************************************************************)
\* The step is a call of the skip closure of a wait that has completed on
\* its own, made while a later update waits or when none is pending.
CallsLapsedSkip == "lapsed" \in hist.handed /\ <<SkipAgain>>_vars

\* C35: a skip closure called after its wait has completed on its own
\* changes neither the status a later operation has set nor the memory of
\* the last skip, which makes the next keep-skipping wait return at once.
C35_LapsedSkipNoEffect ==
    [][CallsLapsedSkip =>
          /\ status.current => status' = status
          /\ skippedLastWait' = skippedLastWait]_vars

\* Such a call sets the status to ready and the memory of the last skip,
\* and resolves nothing.
C35_LapsedSkipSetsBoth ==
    [][CallsLapsedSkip => status' = Ready /\ skippedLastWait' /\ pc' = pc]_vars

(***************************************************************************)
(* The layout-bound nodes between the layout switches.                     *)
(***************************************************************************)
\* No layout switch is under way.
LayoutAtRest == pc \notin {"layoutWait1", "layoutWait2"}

\* C36: whenever no set_layout update is under way, a layout-bound node has
\* opacity 1 if the active layout is one of its layouts and opacity 0 if
\* not, and the Layout tracks no Transition.
C36_NodesFollowLayout ==
    LayoutAtRest =>
        /\ layoutTransitions = <<>>
        /\ \A n \in Nodes :
               getOpacity(nodeStyle[n]) = IF layoutName \in elementLayouts[n] THEN Unit ELSE 0

\* A switch from layout A to layout B has resolved without a skip: panelB
\* is at opacity 1, panelA at 0 and no fade is left.
C36_Witness ==
    /\ Resolved /\ options.type = "set_layout" /\ ~hist.skipped
    /\ layoutName = "B"
    /\ getOpacity(nodeStyle["panelB"]) = Unit
    /\ getOpacity(nodeStyle["panelA"]) = 0
    /\ layoutTransitions = <<>>

(***************************************************************************)
(* A set_layout update that names an unknown layout.                       *)
(***************************************************************************)
\* The step in which a set_layout update for an unknown layout rejects.
UnknownLayoutFails ==
    /\ pc # "rejected" /\ pc' = "rejected"
    /\ options'.type = "set_layout" /\ options'.layoutName \notin layoutNames

\* C37: a set_layout update that names an unknown layout rejects and leaves
\* the layout as it was: the name the Layout holds, the layoutName of the
\* engine state, the Elements, the opacities of the layout-bound nodes and
\* the Transitions are unchanged.
C37_UnknownLayoutChangesNothing ==
    [][UnknownLayoutFails =>
          /\ layoutName' = layoutName
          /\ engineLayoutName' = engineLayoutName
          /\ nodeStyle' = nodeStyle
          /\ layoutTransitions' = layoutTransitions
          /\ transitions' = transitions
          /\ \A slot \in Slots : elements'[slot].state = elements[slot].state]_vars

\* Such an update leaves the Layout as it was and starts no fade, but the
\* layoutName of the engine state is the unknown name afterwards.
C37_EngineKeepsUnknownName ==
    [][UnknownLayoutFails =>
          /\ layoutName' = layoutName
          /\ nodeStyle' = nodeStyle
          /\ layoutTransitions' = layoutTransitions
          /\ engineLayoutName' = options'.layoutName
          /\ engineLayoutName' # layoutName']_vars

(***************************************************************************)
(* The order in which status.select counts the choices.                    *)
(***************************************************************************)
\* The slots select(0), select(1), ... of the choice status stand for.
Selectable == hist.choiceElements

\* C38: in the choice status select(i) stands for the visible choice slot
\* with the i-th smallest index, whatever the order in which the script
\* declared the choice slots.
C38_SelectByIndex ==
    pc = "choice" /\ status.type = "choice" =>
        \A i, j \in 1 .. Len(Selectable) : i < j => Selectable[i].index < Selectable[j].index

\* select(i) stands for the i-th choice slot with a value in the order of
\* the keys of the snapshot, which is the order of declaration.
C38_SelectByDeclaration ==
    pc = "choice" =>
        Selectable = With(SelectSeq(snapshot, LAMBDA p :
                              p.type = "choice" /\ resolveElementValue(p) # Undefined),
                          LAMBDA entries : [i \in 1 .. Len(entries) |-> NameOf(entries[i])])

(***************************************************************************)
(* View.destroy while an update is loading.                                *)
(***************************************************************************)
\* The loading of an update ends, and View.destroy has run since the update
\* began.
LoadEndsAfterDestroy == pc = "loading" /\ hist.torn /\ pc' # "loading"

\* C39: an update that was loading when View.destroy ran does not commit
\* afterwards: no Object is attached, and no Transition of an Element is
\* started or registered with the clock.
C39_NoCommitAfterDestroy ==
    [][LoadEndsAfterDestroy =>
          /\ \A o \in ObjIds : objects'[o].state # "free" /\ objects'[o].attached
                                    => objects[o].state # "free" /\ objects[o].attached
          /\ \A i \in TransIds : Unended(transitions'[i]) => Unended(transitions[i])
          /\ SeqToSet(frameCallbacks') \subseteq SeqToSet(frameCallbacks)]_vars

\* Such an update commits when its last load resolves, as if View.destroy
\* had not run: every new Object of the cycle is attached.
C39_CommitsAfterDestroy ==
    [][LoadEndsAfterDestroy /\ pc' # "rejected" =>
          \A k \in 1 .. Len(gens') :
              gens'[k].newObject # NoId => objects'[gens'[k].newObject].everAttached]_vars

(***************************************************************************)
(* The Objects of an update whose loading failed.                          *)
(***************************************************************************)
\* The update has rejected because the construction of an Object failed.
LoadFailed == pc = "rejected" /\ \E k \in 1 .. Len(gens) : gens[k].load = "rejected"

\* The Objects the other Elements constructed in the first phase of the
\* update.
Constructions ==
    {gens[k].newObject : k \in {j \in 1 .. Len(gens) :
                                   gens[j].load = "resolved" /\ gens[j].newObject # NoId}}

\* C40: when an update has failed because the construction of one Object
\* rejected, every Object another Element constructed in that first phase
\* is attached or has been destroyed.
C40_ConstructedReleased ==
    LoadFailed => \A o \in Constructions : objects[o].attached \/ objects[o].destroyCount > 0

\* After such a failure the Objects the other Elements constructed are
\* neither attached nor destroyed, and no Element holds them.
C40_ConstructedLeftOver ==
    LoadFailed =>
        \A o \in Constructions :
            /\ objects[o].state = "created"
            /\ ~objects[o].attached /\ ~objects[o].everAttached
            /\ objects[o].destroyCount = 0
            /\ \A slot \in Slots : ElementExists(State, slot) => elements[slot].object # o

====
